---- MODULE Spec2Model ----
(***************************************************************************)
(* Model of the scheduling engine of scheduler-py:                         *)
(*   src/src/scheduler/scheduler.py   (assign_jobs, calculate_eta,         *)
(*                                     update_job_queues_and_routes)       *)
(*   src/src/scheduler/utils.py       (windows, greedy fitting)            *)
(*   src/src/scheduler/routing.py     (travel time, daily optimizer,       *)
(*                                     ETA propagation)                    *)
(*   src/src/scheduler/availability.py                                     *)
(* and of the optimize service:                                            *)
(*   src/optimize-service/main.py     (optimize_schedule)                  *)
(*                                                                         *)
(* Time of the engine is counted in minutes since midnight of planning     *)
(* day 1; a datetime is a natural number, a timedelta an integer, None is  *)
(* -1.  Time of the optimize service is counted in seconds.                *)
(***************************************************************************)
EXTENDS Integers, Sequences, FiniteSets, TLC

None == -1

\* ------------------------------------------------------------------ bounds
\* Largest number of units the job service hands out in one planning cycle
\* (over all technicians of the cycle).
MaxUnits == 2

\* Largest number of jobs handed to one assign_jobs pass.
MaxJobs == 4

\* ------------------------------------------------------- program constants
MAX_PLANNING_DAYS == 14
max_days_to_check == 14
MinutesPerDay == 1440
MinTravelMinutes == 5
BufferMinutes == 1
CustomerEtaBuffer == 60

Days == 1..MAX_PLANNING_DAYS

\* ----------------------------------------------------------- sequences
Range(s) == {s[i] : i \in 1..Len(s)}

Front(s) == SubSeq(s, 1, Len(s) - 1)

Last(s) == s[Len(s)]

RemoveAt(s, i) == SubSeq(s, 1, i - 1) \o SubSeq(s, i + 1, Len(s))

Max2(a, b) == IF a >= b THEN a ELSE b

RECURSIVE SumSeq(_)
SumSeq(s) == IF s = <<>> THEN 0 ELSE Head(s) + SumSeq(Tail(s))

\* All orderings of the elements of a sequence (by position).
RECURSIVE Perms(_)
Perms(s) ==
    IF s = <<>> THEN {<<>>}
    ELSE UNION {{<<s[i]>> \o p : p \in Perms(RemoveAt(s, i))} : i \in 1..Len(s)}

\* ----------------------------------------------------------- data model
\* models.Job, reduced to the fields the engine reads and writes.
Job(job_duration) ==
    [job_duration |-> job_duration,
     estimated_sched |-> None, estimated_sched_end |-> None,
     customer_eta_start |-> None, customer_eta_end |-> None]

\* models.SchedulableUnit: duration is the sum of the job durations.
SchedulableUnit(id, priority, location, durations, fixed_schedule_time) ==
    [id |-> id, priority |-> priority, location |-> location,
     jobs |-> [i \in 1..Len(durations) |-> Job(durations[i])],
     duration |-> SumSeq(durations),
     fixed_schedule_time |-> fixed_schedule_time,
     estimated_start_time |-> None, estimated_end_time |-> None]

\* The date of a datetime, as a planning-day number.
DateOf(t) == (t \div MinutesPerDay) + 1

\* ------------------------------------------------------------ travel time
\* Straight-line travel minutes between two distinct known addresses (the
\* Haversine distance at 30 mph, truncated), for addresses 1, 2, 3 on a line.
HaversineMinutes(a, b) == 4 * (IF a >= b THEN a - b ELSE b - a)

\* routing.calculate_travel_time
calculate_travel_time(start_loc, end_loc) ==
    IF start_loc = None \/ end_loc = None THEN MinTravelMinutes
    ELSE IF start_loc = end_loc THEN MinTravelMinutes
    ELSE Max2(MinTravelMinutes, HaversineMinutes(start_loc, end_loc))

\* ----------------------------------------------------------- availability
\* models.DailyAvailability: total_duration is derived from the two ends.
\* tz_aware records whether the datetimes carry a timezone.
DailyAvailability(start_time, end_time, tz_aware) ==
    [is_none |-> FALSE, start_time |-> start_time, end_time |-> end_time,
     total_duration |-> IF end_time > start_time THEN end_time - start_time ELSE 0,
     tz_aware |-> tz_aware]

\* The answer None of the availability service.
NoAvailability ==
    [is_none |-> TRUE, start_time |-> None, end_time |-> None, total_duration |-> 0,
     tz_aware |-> FALSE]

DayBase(day_number) == (day_number - 1) * MinutesPerDay

\* The working-hours services the engine is run against:
\*  "default"  availability.py as written: Monday to Friday 9:00-18:30 in
\*             naive datetimes (planning day 1 is a Monday);
\*  "aware"    the same hours in timezone-aware datetimes;
\*  "short"    a service with an empty day 1, a one-hour day 2, a
\*             half-hour day 3 and nothing afterwards.
AvailabilityServices == {"default", "aware", "short"}

\* availability.get_technician_availability
get_technician_availability(service, day_number) ==
    IF ~(1 <= day_number /\ day_number <= 14) THEN NoAvailability
    ELSE IF service \in {"default", "aware"}
    THEN IF (day_number - 1) % 7 >= 5 THEN NoAvailability
         ELSE DailyAvailability(DayBase(day_number) + 540, DayBase(day_number) + 1110,
                                service = "aware")
    ELSE IF day_number = 1
         THEN DailyAvailability(DayBase(1) + 540, DayBase(1) + 540, TRUE)
    ELSE IF day_number = 2
         THEN DailyAvailability(DayBase(2) + 540, DayBase(2) + 600, TRUE)
    ELSE IF day_number = 3
         THEN DailyAvailability(DayBase(3) + 540, DayBase(3) + 570, TRUE)
    ELSE NoAvailability

\* ------------------------------------------------------------- sorting
\* Python's sort is stable: an element goes behind every element whose key
\* is not greater than its own.
RECURSIVE InsertByPriority(_, _)
InsertByPriority(u, s) ==
    IF s = <<>> THEN <<u>>
    ELSE IF Last(s).priority <= u.priority THEN Append(s, u)
    ELSE Append(InsertByPriority(u, Front(s)), Last(s))

\* The list as it is, without sorting.
units_in_given_order(s) == s

\* list.sort(key=lambda u: u.priority)
RECURSIVE SortByPriority(_)
SortByPriority(s) ==
    IF s = <<>> THEN <<>>
    ELSE InsertByPriority(Last(s), SortByPriority(Front(s)))

RECURSIVE InsertByFixedTime(_, _)
InsertByFixedTime(u, s) ==
    IF s = <<>> THEN <<u>>
    ELSE IF Last(s).fixed_schedule_time <= u.fixed_schedule_time THEN Append(s, u)
    ELSE Append(InsertByFixedTime(u, Front(s)), Last(s))

\* sorted(..., key=lambda u: u.fixed_schedule_time)
RECURSIVE SortByFixedTime(_)
SortByFixedTime(s) ==
    IF s = <<>> THEN <<>>
    ELSE InsertByFixedTime(Last(s), SortByFixedTime(Front(s)))

UnitIds(s) == {s[i].id : i \in 1..Len(s)}

\* ------------------------------------------------------- free windows
\* A loop over the fixed units that accepts every unit as it comes, without
\* the test against the last event and the end of the day.
RECURSIVE windows_accepting_every_unit(_, _, _, _, _)
windows_accepting_every_unit(fixed_units_today, last_event_end_time, last_event_location, day_end, available_windows) ==
    IF fixed_units_today = <<>>
    THEN IF last_event_end_time < day_end
         THEN Append(available_windows,
                     <<last_event_end_time, day_end, last_event_location>>)
         ELSE available_windows
    ELSE LET fixed_unit == Head(fixed_units_today)
             fixed_start == fixed_unit.fixed_schedule_time
             fixed_end == fixed_start + fixed_unit.duration
         IN windows_accepting_every_unit(
               Tail(fixed_units_today), fixed_end, fixed_unit.location, day_end,
               IF fixed_start > last_event_end_time
               THEN Append(available_windows,
                           <<last_event_end_time, fixed_start, last_event_location>>)
               ELSE available_windows)

\* A loop over the fixed units in which a unit that conflicts with the last
\* event or exceeds the day yields no window but still becomes the last
\* event.
RECURSIVE windows_with_skipped_unit_as_last_event(_, _, _, _, _)
windows_with_skipped_unit_as_last_event(fixed_units_today, last_event_end_time, last_event_location, day_end, available_windows) ==
    IF fixed_units_today = <<>>
    THEN IF last_event_end_time < day_end
         THEN Append(available_windows,
                     <<last_event_end_time, day_end, last_event_location>>)
         ELSE available_windows
    ELSE LET fixed_unit == Head(fixed_units_today)
             fixed_start == fixed_unit.fixed_schedule_time
             fixed_end == fixed_start + fixed_unit.duration
         IN IF fixed_unit.duration <= 0 \/ fixed_unit.location = None
            THEN windows_with_skipped_unit_as_last_event(
                    Tail(fixed_units_today), last_event_end_time, last_event_location,
                    day_end, available_windows)
            ELSE windows_with_skipped_unit_as_last_event(
                    Tail(fixed_units_today), fixed_end, fixed_unit.location, day_end,
                    IF fixed_start > last_event_end_time /\ fixed_end <= day_end
                    THEN Append(available_windows,
                                <<last_event_end_time, fixed_start, last_event_location>>)
                    ELSE available_windows)

\* The loop of calculate_daily_available_windows over the sorted fixed
\* units; a window is <<window_start, window_end, location_before_window>>.
RECURSIVE WindowsWalk(_, _, _, _, _)
WindowsWalk(fixed_units_today, last_event_end_time, last_event_location, day_end, available_windows) ==
    IF fixed_units_today = <<>>
    THEN IF last_event_end_time < day_end
         THEN Append(available_windows,
                     <<last_event_end_time, day_end, last_event_location>>)
         ELSE available_windows
    ELSE LET fixed_unit == Head(fixed_units_today)
             fixed_start == fixed_unit.fixed_schedule_time
             fixed_end == fixed_start + fixed_unit.duration
         IN IF fixed_unit.duration <= 0 \/ fixed_unit.location = None
            THEN WindowsWalk(Tail(fixed_units_today), last_event_end_time,
                             last_event_location, day_end, available_windows)
            ELSE IF fixed_start >= last_event_end_time /\ fixed_end <= day_end
            THEN WindowsWalk(Tail(fixed_units_today), fixed_end, fixed_unit.location,
                             day_end,
                             IF fixed_start > last_event_end_time
                             THEN Append(available_windows,
                                         <<last_event_end_time, fixed_start,
                                           last_event_location>>)
                             ELSE available_windows)
            ELSE WindowsWalk(Tail(fixed_units_today), last_event_end_time,
                             last_event_location, day_end, available_windows)

HasFixedTime(u) == u.fixed_schedule_time # None

\* A helper that returns the working day as one window.
windows_ignoring_fixed_units(scheduled_units_today, day_start, day_end, start_location_today) ==
    IF day_start < day_end THEN <<<<day_start, day_end, start_location_today>>>> ELSE <<>>

\* utils.calculate_daily_available_windows
calculate_daily_available_windows(scheduled_units_today, day_start, day_end, start_location_today) ==
    WindowsWalk(SortByFixedTime(SelectSeq(scheduled_units_today, HasFixedTime)),
                day_start, start_location_today, day_end, <<>>)

\* --------------------------------------------------- greedy placement
\* The index of the first window that is long enough, 0 when there is none.
RECURSIVE FirstFit(_, _, _)
FirstFit(unit_duration, local_available_windows, i) ==
    IF i > Len(local_available_windows) THEN 0
    ELSE IF unit_duration <= 0 THEN 0
    ELSE IF unit_duration <= local_available_windows[i][2] - local_available_windows[i][1]
    THEN i
    ELSE FirstFit(unit_duration, local_available_windows, i + 1)

\* The loop of fit_dynamic_units_into_windows: a used window is removed.
RECURSIVE FitWalk(_, _, _)
FitWalk(dynamic_units, local_available_windows, scheduled_dynamic_today) ==
    IF dynamic_units = <<>> THEN scheduled_dynamic_today
    ELSE LET dyn_unit == Head(dynamic_units)
             i == FirstFit(dyn_unit.duration, local_available_windows, 1)
         IN IF i = 0
            THEN FitWalk(Tail(dynamic_units), local_available_windows,
                         scheduled_dynamic_today)
            ELSE FitWalk(Tail(dynamic_units), RemoveAt(local_available_windows, i),
                         Append(scheduled_dynamic_today, dyn_unit))

\* A placement that forgets the units it could not place.
fit_dropping_unplaced(dynamic_units, available_windows) ==
    <<FitWalk(dynamic_units, available_windows, <<>>), <<>>>>

\* utils.fit_dynamic_units_into_windows:
\* <<scheduled_dynamic_today, remaining_dynamic_units_final>>
fit_dynamic_units_into_windows(dynamic_units, available_windows) ==
    LET scheduled_dynamic_today == FitWalk(dynamic_units, available_windows, <<>>)
        units_scheduled_ids == UnitIds(scheduled_dynamic_today)
        NotScheduled(u) == u.id \notin units_scheduled_ids
    IN <<scheduled_dynamic_today, SelectSeq(dynamic_units, NotScheduled)>>

\* ------------------------------------------------------ daily optimizer
max_daily_seconds == MinutesPerDay

\* The value of the time dimension at each stop of a route when the vehicle
\* leaves the start location at 0: time_callback adds, per edge, the travel
\* time and the service duration of the node the edge leads to.
RECURSIVE RouteCumuls(_, _, _)
RouteCumuls(route, from_loc, cumul) ==
    IF route = <<>> THEN <<>>
    ELSE LET c == cumul + calculate_travel_time(from_loc, Head(route).location)
                        + Head(route).duration
         IN <<c>> \o RouteCumuls(Tail(route), Head(route).location, c)

\* fixed_time_seconds_rel of a constrained unit
FixedRel(fixed_time, day_start_time) == Max2(0, fixed_time - day_start_time)

RECURSIVE MaxOfSet(_)
MaxOfSet(S) ==
    IF S = {} THEN 0
    ELSE LET x == CHOOSE y \in S : TRUE
         IN Max2(x, MaxOfSet(S \ {x}))

\* The least start value of the time dimension that lets every constrained
\* stop of the route reach the lower end of its range.
RouteStartMin(route, start_location, time_constraints, day_start_time) ==
    LET cumuls == RouteCumuls(route, start_location, 0)
    IN MaxOfSet({FixedRel(time_constraints[route[k].id], day_start_time) - cumuls[k] :
                   k \in {i \in 1..Len(route) : route[i].id \in DOMAIN time_constraints}})

\* Whether the solver's model admits the route: every constrained stop lies
\* in [fixed, fixed + buffer] and the dimension stays within its capacity up
\* to the return to the start location.
RouteFeasible(route, start_location, time_constraints, day_start_time) ==
    LET cumuls == RouteCumuls(route, start_location, 0)
        s == RouteStartMin(route, start_location, time_constraints, day_start_time)
    IN /\ \A k \in 1..Len(route) :
            route[k].id \in DOMAIN time_constraints =>
               s + cumuls[k] <= FixedRel(time_constraints[route[k].id], day_start_time)
                                  + BufferMinutes
       /\ s + Last(cumuls) + calculate_travel_time(Last(route).location, start_location)
            <= max_daily_seconds

\* What optimize_daily_route_and_get_time returns for one solved route.
RouteResult(route, start_location, time_constraints, day_start_time) ==
    LET cumuls == RouteCumuls(route, start_location, 0)
        s == RouteStartMin(route, start_location, time_constraints, day_start_time)
    IN [raised |-> FALSE,
        optimized_units |-> route,
        total_time |-> s + Last(cumuls) + Last(route).duration,
        calculated_start_times |->
            [id \in UnitIds(route) |->
                LET k == CHOOSE i \in 1..Len(route) : route[i].id = id
                IN day_start_time + s + cumuls[k]]]

NoSolution == [raised |-> FALSE, optimized_units |-> <<>>, total_time |-> 0, calculated_start_times |-> <<>>]

Raised == [raised |-> TRUE, optimized_units |-> <<>>, total_time |-> 0, calculated_start_times |-> <<>>]

\* routing.optimize_daily_route_and_get_time: the set of results the call can
\* produce.  Every unit is a mandatory stop; the search returns one of the
\* routes its model admits, and reports no solution when it admits none.
\* Naive datetimes are rejected with a ValueError.
optimize_daily_route_and_get_time(units, start_location, time_constraints, day_start_time, tz_aware) ==
    IF units = <<>> THEN {NoSolution}
    ELSE IF ~tz_aware THEN {Raised}
    ELSE LET routes == {r \in Perms(units) :
                          RouteFeasible(r, start_location, time_constraints, day_start_time)}
         IN IF routes = {} THEN {NoSolution}
            ELSE {RouteResult(r, start_location, time_constraints, day_start_time) :
                    r \in routes}

\* ------------------------------------------------------ ETA propagation
\* The jobs of a unit, every one of them started at job_current_start.
jobs_all_at_unit_start(jobs, job_current_start) ==
    [i \in 1..Len(jobs) |->
        [jobs[i] EXCEPT !.estimated_sched = job_current_start,
                        !.estimated_sched_end = job_current_start + jobs[i].job_duration,
                        !.customer_eta_start = job_current_start - CustomerEtaBuffer,
                        !.customer_eta_end = job_current_start + jobs[i].job_duration
                                               + CustomerEtaBuffer]]

\* The jobs of a unit, stacked one after the other from job_current_start.
RECURSIVE StackJobs(_, _)
StackJobs(jobs, job_current_start) ==
    IF jobs = <<>> THEN <<>>
    ELSE LET job == Head(jobs)
         IN <<[job EXCEPT !.estimated_sched = job_current_start,
                          !.estimated_sched_end = job_current_start + job.job_duration,
                          !.customer_eta_start = job_current_start - CustomerEtaBuffer,
                          !.customer_eta_end = job_current_start + job.job_duration
                                                 + CustomerEtaBuffer]>>
            \o StackJobs(Tail(jobs), job_current_start + job.job_duration)

UnitStartingAt(unit, unit_start_time) ==
    [unit EXCEPT !.estimated_start_time = unit_start_time,
                 !.estimated_end_time = unit_start_time + unit.duration,
                 !.jobs = StackJobs(unit.jobs, unit_start_time)]

\* A unit whose jobs keep the estimates they came with.
jobs_keep_their_estimates(unit) == unit

ClearedJobs(unit) ==
    [unit EXCEPT !.jobs = [i \in 1..Len(unit.jobs) |->
                             [unit.jobs[i] EXCEPT !.estimated_sched = None,
                                                  !.estimated_sched_end = None,
                                                  !.customer_eta_start = None,
                                                  !.customer_eta_end = None]]]

\* The branch of update_etas_for_schedule that uses the solver's start times.
EtasFromStartTimes(units, unit_start_times_today) ==
    [i \in 1..Len(units) |->
        IF units[i].id \in DOMAIN unit_start_times_today
        THEN UnitStartingAt(units[i], unit_start_times_today[units[i].id])
        ELSE units[i]]

\* The manual walk of the fallback branch over the units of a day.
RECURSIVE EtasFallbackWalk(_, _, _, _)
EtasFallbackWalk(units, current_time, current_loc, day_end) ==
    IF units = <<>> THEN <<>>
    ELSE LET unit == Head(units)
             arrival == current_time + calculate_travel_time(current_loc, unit.location)
             unit_start == IF unit.fixed_schedule_time # None
                           THEN Max2(arrival, unit.fixed_schedule_time)
                           ELSE arrival
         IN IF unit_start + unit.duration > day_end
            THEN [i \in 1..Len(units) |-> ClearedJobs(units[i])]
            ELSE <<UnitStartingAt(unit, unit_start)>>
                 \o EtasFallbackWalk(Tail(units), unit_start + unit.duration,
                                     unit.location, day_end)

\* One day of update_etas_for_schedule.
EtasForDay(units, unit_start_times_today, avail, start_location) ==
    IF units = <<>> THEN units
    ELSE IF DOMAIN unit_start_times_today # {}
    THEN EtasFromStartTimes(units, unit_start_times_today)
    ELSE IF avail.is_none THEN units
    ELSE IF ~avail.tz_aware THEN units
    ELSE EtasFallbackWalk(units, avail.start_time, start_location, avail.end_time)

\* ------------------------------------------------------------ technicians
Technicians == {1, 2}

\* Technician 1 is at its home base; technician 2 has no live location.
current_location(tech) == IF tech = 1 THEN 1 ELSE None

home_location(tech) == IF tech = 1 THEN 1 ELSE 2

\* The technician lists a cycle is run for.
TechnicianLists == {<<1>>, <<2>>, <<1, 2>>, <<2, 1>>}

\* ------------------------------------------------------ units of a cycle
\* What create_schedulable_units can hand to the planner for one order:
\* priority, location, job durations and fixed time.
UnitTemplates ==
    { [priority |-> 1, location |-> 2, durations |-> <<60>>, fixed |-> None],
      [priority |-> 2, location |-> 3, durations |-> <<200, 100>>, fixed |-> None],
      [priority |-> 1, location |-> 3, durations |-> <<600>>, fixed |-> None],
      [priority |-> 1, location |-> 2, durations |-> <<60>>, fixed |-> DayBase(1) + 660],
      [priority |-> 2, location |-> 3, durations |-> <<60>>, fixed |-> DayBase(2) + 570],
      [priority |-> 2, location |-> 2, durations |-> <<60>>, fixed |-> DayBase(1) + 1100] }

\* The unit lists of at most n units, with ids first_id, first_id + 1, ...
RECURSIVE UnitLists(_, _)
UnitLists(n, first_id) ==
    IF n = 0 THEN {<<>>}
    ELSE {<<>>} \cup
         {<<SchedulableUnit(first_id, t.priority, t.location, t.durations, t.fixed)>> \o rest :
            t \in UnitTemplates, rest \in UnitLists(n - 1, first_id + 1)}

EmptySchedule == [d \in Days |-> <<>>]

NoStartTimes == [d \in Days |-> <<>>]

\* The plans an earlier cycle can have left to a technician, per
\* working-hours service.  With timezone-aware hours: a one-hour dynamic
\* unit at address 2 on the first day the technician can be planned, with
\* its propagated times.  With the naive hours of availability.py only
\* fixed-time units are ever committed: the fixed-time unit of that day.
\* With the short hours nothing is ever committed.
PriorUnit(start) == UnitStartingAt(SchedulableUnit(1, 1, 2, <<60>>, None), start)

PriorFixedUnit(priority, location, fixed) ==
    UnitStartingAt(SchedulableUnit(1, priority, location, <<60>>, fixed), fixed)

PriorPlan(availability_service, technician) ==
    IF availability_service = "aware"
    THEN IF technician = 1
         THEN [EmptySchedule EXCEPT ![1] = <<PriorUnit(DayBase(1) + 605)>>]
         ELSE [EmptySchedule EXCEPT ![2] = <<PriorUnit(DayBase(2) + 605)>>]
    ELSE IF availability_service = "default"
    THEN IF technician = 1
         THEN [EmptySchedule EXCEPT ![1] = <<PriorFixedUnit(1, 2, DayBase(1) + 660)>>]
         ELSE [EmptySchedule EXCEPT ![2] = <<PriorFixedUnit(2, 3, DayBase(2) + 570)>>]
    ELSE EmptySchedule

\* The schedules a technician can hold when the engine is called.
PriorSchedules(availability_service, technician) ==
    {EmptySchedule, PriorPlan(availability_service, technician)}

\* ------------------------------------------------------------------ state
VARIABLES
    technicians,                \* the list passed to the engine
    service,                    \* the working-hours service in use
    schedule,                   \* tech.schedule, per technician and day
    pc,                         \* where update_job_queues_and_routes stands
    tech_index,                 \* position of its for loop
    all_units, fixed_time_units,
    remaining_dynamic_units, pending_fixed_time_units,
    current_day, all_daily_start_times,
    budget,                     \* units the job service can still hand out
    iterations,                 \* iterations of the day loop for this technician
    lastDay,                    \* what the last iteration of the day loop did
    lastFetch,                  \* outcome of the last fetch_assigned_jobs
    report,                     \* the unscheduled units logged per technician
    eta_query,                  \* the last calculate_eta call and its answer
    all_eligible_jobs,          \* the jobs handed to assign_jobs
    order_queue,                \* order ids assign_jobs has still to go through
    jobs_requiring_individual_assignment,
    individual_index,           \* position of the per-job loop
    assignments,                \* the assignment writes issued, in order
    helper_call,                \* the last call of a helper of utils.py
    payload,                    \* the request the optimize service holds
    response                    \* its answer

updVars == <<schedule, pc, tech_index, all_units, fixed_time_units,
             remaining_dynamic_units, pending_fixed_time_units, current_day,
             all_daily_start_times, budget, iterations, lastDay, lastFetch, report>>

asgVars == <<all_eligible_jobs, order_queue, jobs_requiring_individual_assignment,
             individual_index, assignments>>

callVars == <<helper_call, payload, response>>

vars == <<technicians, service, updVars, eta_query, asgVars, callVars>>

tech == technicians[tech_index]

NoDay == [kind |-> "none", day |-> 0, outcome |-> "none", offered |-> {},
          attempted |-> {}, fixed_today |-> {}, owed |-> {}]

NoFetch == [tech |-> 0, outcome |-> "none", before |-> EmptySchedule]

NoQuery == [tech |-> 0, jobs |-> <<>>, eta |-> None, before |-> EmptySchedule]

NoReport == [dynamic |-> <<>>, fixed |-> <<>>, units |-> <<>>, done |-> FALSE]

NoCall == [kind |-> "none"]

NoPayload == [kind |-> "none"]

NoResponse == [kind |-> "none"]

Init ==
    /\ technicians \in TechnicianLists
    /\ service \in AvailabilityServices
    /\ schedule \in {f \in [Technicians -> UNION {PriorSchedules(service, t) :
                                                     t \in Technicians}] :
                       \A t \in Technicians :
                          /\ f[t] \in PriorSchedules(service, t)
                          /\ t \notin Range(technicians) => f[t] = EmptySchedule}
    /\ pc = "idle"
    /\ tech_index = 0
    /\ all_units = <<>>
    /\ fixed_time_units = <<>>
    /\ remaining_dynamic_units = <<>>
    /\ pending_fixed_time_units = <<>>
    /\ current_day = 0
    /\ all_daily_start_times = NoStartTimes
    /\ budget = 0
    /\ iterations = 0
    /\ lastDay = NoDay
    /\ lastFetch = NoFetch
    /\ report = [t \in Technicians |-> NoReport]
    /\ eta_query = NoQuery
    /\ all_eligible_jobs = <<>>
    /\ order_queue = <<>>
    /\ jobs_requiring_individual_assignment = <<>>
    /\ individual_index = 0
    /\ assignments = <<>>
    /\ helper_call = NoCall
    /\ payload = NoPayload
    /\ response = NoResponse

\* --------------------------------------- update_job_queues_and_routes
\* The for loop moves on to the next technician, or the call returns.
NextTechnician ==
    IF tech_index < Len(technicians)
    THEN /\ tech_index' = tech_index + 1
         /\ pc' = "fetch"
    ELSE /\ tech_index' = 0
         /\ pc' = "done"

\* A call of update_job_queues_and_routes(technicians) begins.
StartUpdate ==
    /\ pc \in {"idle", "assigned"}
    /\ pc' = "fetch"
    /\ tech_index' = 1
    /\ budget' = MaxUnits
    /\ lastDay' = NoDay
    /\ lastFetch' = NoFetch
    /\ report' = [t \in Technicians |-> NoReport]
    /\ UNCHANGED <<technicians, service, schedule, all_units, fixed_time_units,
                   remaining_dynamic_units, pending_fixed_time_units, current_day,
                   all_daily_start_times, iterations, eta_query, callVars>>
    /\ all_eligible_jobs' = <<>>
    /\ order_queue' = <<>>
    /\ jobs_requiring_individual_assignment' = <<>>
    /\ individual_index' = 0
    /\ assignments' = <<>>

\* tech.schedule = {} comes before the fetch.
ClearedSchedule == [schedule EXCEPT ![tech] = EmptySchedule]

\* fetch_assigned_jobs raises: the technician is skipped.
FetchRaises ==
    /\ pc = "fetch"
    /\ schedule' = ClearedSchedule
    /\ all_daily_start_times' = NoStartTimes
    /\ lastFetch' = [tech |-> tech, outcome |-> "raised", before |-> schedule[tech]]
    /\ NextTechnician
    /\ UNCHANGED <<technicians, service, all_units, fixed_time_units,
                   remaining_dynamic_units, pending_fixed_time_units, current_day,
                   budget, iterations, lastDay, report, eta_query, callVars, asgVars>>

\* fetch_assigned_jobs returns no job (also its answer to a failed request):
\* update_etas_for_schedule runs on the cleared schedule and changes nothing.
FetchNothing ==
    /\ pc = "fetch"
    /\ schedule' = ClearedSchedule
    /\ all_daily_start_times' = NoStartTimes
    /\ lastFetch' = [tech |-> tech, outcome |-> "empty", before |-> schedule[tech]]
    /\ NextTechnician
    /\ UNCHANGED <<technicians, service, all_units, fixed_time_units,
                   remaining_dynamic_units, pending_fixed_time_units, current_day,
                   budget, iterations, lastDay, report, eta_query, callVars, asgVars>>

IsDynamic(u) == u.fixed_schedule_time = None

\* The technician has jobs: units are built, split and sorted (steps 2, 3).
FetchJobs ==
    /\ pc = "fetch"
    /\ \E units \in UnitLists(budget, MaxUnits - budget + 1) \ {<<>>} :
         /\ all_units' = units
         /\ fixed_time_units' = SelectSeq(units, HasFixedTime)
         /\ remaining_dynamic_units' = SortByPriority(SelectSeq(units, IsDynamic))
         /\ pending_fixed_time_units' = SelectSeq(units, HasFixedTime)
         /\ budget' = budget - Len(units)
    /\ schedule' = ClearedSchedule
    /\ all_daily_start_times' = NoStartTimes
    /\ lastFetch' = [tech |-> tech, outcome |-> "jobs", before |-> EmptySchedule]
    /\ current_day' = 1
    /\ iterations' = 0
    /\ lastDay' = NoDay
    /\ pc' = "plan"
    /\ UNCHANGED <<technicians, service, tech_index, report, eta_query, callVars, asgVars>>

\* A loop condition without the planning horizon.
LoopConditionWithoutHorizon ==
    remaining_dynamic_units # <<>> \/ pending_fixed_time_units # <<>>

\* The condition of the while loop.
LoopCondition ==
    /\ remaining_dynamic_units # <<>> \/ pending_fixed_time_units # <<>>
    /\ current_day <= MAX_PLANNING_DAYS

availability == get_technician_availability(service, current_day)

start_location_today ==
    IF current_day = 1 THEN current_location(tech) ELSE home_location(tech)

HasAvailability == ~availability.is_none /\ availability.total_duration > 0

\* The units a failed day has put back and no later day has been offered yet.
Owed ==
    IF lastDay.kind = "planned"
    THEN IF lastDay.outcome \in {"over", "raise"} THEN lastDay.attempted ELSE {}
    ELSE lastDay.owed

\* No availability, or none left: the day is skipped.
SkipDay ==
    /\ pc = "plan"
    /\ LoopCondition
    /\ ~HasAvailability
    /\ current_day' = current_day + 1
    /\ iterations' = iterations + 1
    /\ lastDay' = [NoDay EXCEPT !.kind = "skip", !.day = current_day, !.owed = Owed]
    /\ UNCHANGED <<technicians, service, schedule, pc, tech_index, all_units,
                   fixed_time_units, remaining_dynamic_units, pending_fixed_time_units,
                   all_daily_start_times, budget, lastFetch, report, eta_query, callVars, asgVars>>

\* The technician has no start location for the day.
SkipDayNoLocation ==
    /\ pc = "plan"
    /\ LoopCondition
    /\ HasAvailability
    /\ start_location_today = None
    /\ schedule' = [schedule EXCEPT ![tech][current_day] = <<>>]
    /\ current_day' = current_day + 1
    /\ iterations' = iterations + 1
    /\ lastDay' = [NoDay EXCEPT !.kind = "noloc", !.day = current_day, !.owed = Owed]
    /\ UNCHANGED <<technicians, service, pc, tech_index, all_units,
                   fixed_time_units, remaining_dynamic_units, pending_fixed_time_units,
                   all_daily_start_times, budget, lastFetch, report, eta_query, callVars, asgVars>>

FixedTimesOf(units) ==
    [id \in UnitIds(units) |->
        (CHOOSE u \in Range(units) : u.id = id).fixed_schedule_time]

Restrict(f, S) == [x \in (DOMAIN f) \cap S |-> f[x]]

\* A finalization that commits whatever the optimizer returned, with no
\* check of the day's capacity and no way back for the attempted units.
finalize_without_capacity_check(result, start_location, total_duration, fixed_units_scheduled_today, scheduled_dynamic_today, remaining) ==
    LET all_units_today == fixed_units_scheduled_today \o scheduled_dynamic_today
    IN IF all_units_today = <<>>
       THEN [current_day_schedule |-> <<>>, start_times |-> <<>>,
             remaining |-> remaining, outcome |-> "nounits"]
       ELSE IF start_location = None
       THEN [current_day_schedule |-> fixed_units_scheduled_today,
             start_times |-> FixedTimesOf(fixed_units_scheduled_today),
             remaining |-> remaining, outcome |-> "noloc"]
       ELSE IF result.raised
       THEN [current_day_schedule |-> fixed_units_scheduled_today,
             start_times |-> FixedTimesOf(fixed_units_scheduled_today),
             remaining |-> remaining, outcome |-> "raise"]
       ELSE [current_day_schedule |-> result.optimized_units,
             start_times |-> Restrict(result.calculated_start_times,
                                      UnitIds(result.optimized_units)),
             remaining |-> remaining,
             outcome |-> IF result.total_time <= total_duration
                         THEN IF result.optimized_units = <<>> THEN "nosol" ELSE "ok"
                         ELSE "over"]

\* scheduler._optimize_and_finalize_daily_schedule, for one result of the
\* optimizer call: the day's schedule, the day's entry of
\* all_daily_start_times, the returned remaining_dynamic_units, and the
\* branch taken.
optimize_and_finalize_daily_schedule(result, start_location, total_duration, fixed_units_scheduled_today, scheduled_dynamic_today, remaining) ==
    LET all_units_today == fixed_units_scheduled_today \o scheduled_dynamic_today
        units_scheduled_ids == UnitIds(scheduled_dynamic_today)
        WasScheduled(u) == u.id \in units_scheduled_ids
        failed_dynamic_units == SelectSeq(all_units_today, WasScheduled)
    IN IF all_units_today = <<>>
       THEN [current_day_schedule |-> <<>>, start_times |-> <<>>,
             remaining |-> remaining, outcome |-> "nounits"]
       ELSE IF start_location = None
       THEN [current_day_schedule |-> fixed_units_scheduled_today,
             start_times |-> FixedTimesOf(fixed_units_scheduled_today),
             remaining |-> remaining, outcome |-> "noloc"]
       ELSE IF result.raised
       THEN [current_day_schedule |-> fixed_units_scheduled_today,
             start_times |-> FixedTimesOf(fixed_units_scheduled_today),
             remaining |-> remaining \o failed_dynamic_units, outcome |-> "raise"]
       ELSE IF result.total_time <= total_duration
       THEN [current_day_schedule |-> result.optimized_units,
             start_times |-> Restrict(result.calculated_start_times,
                                      UnitIds(result.optimized_units)),
             remaining |-> remaining,
             outcome |-> IF result.optimized_units = <<>> THEN "nosol" ELSE "ok"]
       ELSE [current_day_schedule |-> fixed_units_scheduled_today,
             start_times |-> Restrict(result.calculated_start_times,
                                      UnitIds(fixed_units_scheduled_today)),
             remaining |-> remaining \o failed_dynamic_units, outcome |-> "over"]

\* One planned day: steps 4a to 4d of the loop.  The greedy placement is the
\* helper imported from utils.
PlanDay ==
    /\ pc = "plan"
    /\ LoopCondition
    /\ HasAvailability
    /\ start_location_today # None
    /\ LET day_start == availability.start_time
           day_end == availability.end_time
           available_windows ==
               calculate_daily_available_windows(all_units, day_start, day_end,
                                                 start_location_today)
           fit == fit_dynamic_units_into_windows(remaining_dynamic_units,
                                                 available_windows)
           scheduled_dynamic_today == fit[1]
           OnThisDay(u) == DateOf(u.fixed_schedule_time) = DateOf(day_start)
           fixed_units_scheduled_today == SelectSeq(fixed_time_units, OnThisDay)
           all_units_today == fixed_units_scheduled_today \o scheduled_dynamic_today
       IN \E result \in optimize_daily_route_and_get_time(
                           all_units_today, start_location_today,
                           FixedTimesOf(fixed_units_scheduled_today), day_start,
                           availability.tz_aware) :
            LET final == optimize_and_finalize_daily_schedule(
                             result, start_location_today, availability.total_duration,
                             fixed_units_scheduled_today, scheduled_dynamic_today, fit[2])
            IN /\ schedule' = [schedule EXCEPT ![tech][current_day] =
                                                  final.current_day_schedule]
               /\ all_daily_start_times' =
                     [all_daily_start_times EXCEPT ![current_day] = final.start_times]
               /\ remaining_dynamic_units' = SortByPriority(final.remaining)
               /\ lastDay' = [kind |-> "planned", day |-> current_day,
                              outcome |-> final.outcome,
                              offered |-> UnitIds(remaining_dynamic_units),
                              attempted |-> UnitIds(scheduled_dynamic_today),
                              fixed_today |-> UnitIds(fixed_units_scheduled_today),
                              owed |-> Owed]
    /\ current_day' = current_day + 1
    /\ iterations' = iterations + 1
    /\ UNCHANGED <<technicians, service, pc, tech_index, all_units, fixed_time_units,
                   pending_fixed_time_units, budget, lastFetch, report, eta_query, callVars, asgVars>>

\* routing.update_etas_for_schedule
update_etas_for_schedule(technician, tech_schedule, daily_unit_start_times) ==
    [d \in Days |->
        EtasForDay(tech_schedule[d], daily_unit_start_times[d],
                   get_technician_availability(service, d),
                   IF d = 1 THEN current_location(technician)
                   ELSE home_location(technician))]

IdsOf(units) == [i \in 1..Len(units) |-> units[i].id]

\* The loop has ended: ETAs are propagated and the leftovers are logged.
FinishTech ==
    /\ pc = "plan"
    /\ ~LoopCondition
    /\ schedule' = [schedule EXCEPT ![tech] =
                      update_etas_for_schedule(tech, schedule[tech],
                                               all_daily_start_times)]
    /\ report' = [report EXCEPT ![tech] =
                    [dynamic |-> IdsOf(remaining_dynamic_units),
                     fixed |-> IdsOf(pending_fixed_time_units),
                     units |-> all_units,
                     done |-> TRUE]]
    /\ NextTechnician
    /\ UNCHANGED <<technicians, service, all_units, fixed_time_units,
                   remaining_dynamic_units, pending_fixed_time_units, current_day,
                   all_daily_start_times, budget, iterations, lastDay, lastFetch,
                   eta_query, callVars, asgVars>>

\* ------------------------------------------------------- calculate_eta
\* A job as assign_jobs and calculate_eta read it.  location is what
\* getattr(job, 'location', None) yields: None for a job object that has an
\* address but no attribute of that name, as models.Job has.
EligibleJob(id, order_id, location, job_duration, equipment_requirements, fixed_assignment) ==
    [id |-> id, order_id |-> order_id, location |-> location,
     job_duration |-> job_duration,
     equipment_requirements |-> equipment_requirements,
     fixed_assignment |-> fixed_assignment]

\* The for loop over the windows of one day: the start of the first window
\* the unit fits into, None when it fits into none.
RECURSIVE EtaWindowWalk(_, _, _)
EtaWindowWalk(available_windows, temp_unit_location, temp_unit_duration) ==
    IF available_windows = <<>> THEN None
    ELSE LET window_start == Head(available_windows)[1]
             window_end == Head(available_windows)[2]
             location_before_window == Head(available_windows)[3]
             travel_to_new_unit == calculate_travel_time(location_before_window,
                                                         temp_unit_location)
             arrival_time == window_start + travel_to_new_unit
             potential_start == Max2(window_start, arrival_time)
             potential_end == potential_start + temp_unit_duration
         IN IF location_before_window = None
            THEN EtaWindowWalk(Tail(available_windows), temp_unit_location,
                               temp_unit_duration)
            ELSE IF potential_end <= window_end THEN potential_start
            ELSE EtaWindowWalk(Tail(available_windows), temp_unit_location,
                               temp_unit_duration)

\* The start location calculate_eta uses for a day.
EtaStartLocation(technician, day) ==
    IF day = 1 THEN current_location(technician) ELSE home_location(technician)

\* Whether the while loop gets as far as the windows of the day.
EtaDayUsable(technician, day) ==
    LET a == get_technician_availability(service, day)
    IN ~a.is_none /\ a.total_duration > 0 /\ EtaStartLocation(technician, day) # None

\* The windows calculate_eta asks for: those of the committed schedule.
EtaWindows(technician, day) ==
    LET a == get_technician_availability(service, day)
    IN calculate_daily_available_windows(schedule[technician][day], a.start_time,
                                         a.end_time, EtaStartLocation(technician, day))

\* The while loop over the days.
RECURSIVE EtaDayWalk(_, _, _, _)
EtaDayWalk(technician, temp_unit_location, temp_unit_duration, day) ==
    IF day > max_days_to_check THEN None
    ELSE IF ~EtaDayUsable(technician, day)
    THEN EtaDayWalk(technician, temp_unit_location, temp_unit_duration, day + 1)
    ELSE LET found == EtaWindowWalk(EtaWindows(technician, day), temp_unit_location,
                                    temp_unit_duration)
         IN IF found # None THEN found
            ELSE EtaDayWalk(technician, temp_unit_location, temp_unit_duration, day + 1)

JobDurations(jobs) == [i \in 1..Len(jobs) |-> jobs[i].job_duration]

\* scheduler.calculate_eta
calculate_eta(technician, jobs_to_consider) ==
    IF jobs_to_consider = <<>> THEN None
    ELSE IF jobs_to_consider[1].location = None THEN None
    ELSE IF SumSeq(JobDurations(jobs_to_consider)) <= 0 THEN None
    ELSE EtaDayWalk(technician, jobs_to_consider[1].location,
                    SumSeq(JobDurations(jobs_to_consider)), 1)

\* A windows helper that filters the caller's list in place.
units_filtered_in_place(scheduled_units_today) ==
    SelectSeq(scheduled_units_today, HasFixedTime)

\* The caller's list after calculate_daily_available_windows: the helper
\* filters into a new list and sorts that one with sorted().
units_after_windows_call(scheduled_units_today) == scheduled_units_today

\* The technician's schedule after calculate_eta: the day lists the walk has
\* handed to the windows helper are the only objects it passes on.
schedule_after_calculate_eta(technician, jobs_to_consider) ==
    LET eta == calculate_eta(technician, jobs_to_consider)
        entered == /\ jobs_to_consider # <<>>
                   /\ jobs_to_consider[1].location # None
                   /\ SumSeq(JobDurations(jobs_to_consider)) > 0
        Walked(d) == /\ entered
                     /\ EtaDayUsable(technician, d)
                     /\ eta = None \/ d <= DateOf(eta)
    IN [d \in Days |->
           IF Walked(d) THEN units_after_windows_call(schedule[technician][d])
           ELSE schedule[technician][d]]

\* The candidates calculate_eta is asked about once a cycle has ended.
EtaCandidates ==
    { <<>>,
      <<EligibleJob(1, 1, 2, 20, <<>>, FALSE)>>,
      <<EligibleJob(1, 1, 2, 20, <<>>, FALSE), EligibleJob(2, 1, 2, 30, <<>>, FALSE)>>,
      <<EligibleJob(1, 1, 3, 200, <<>>, FALSE)>>,
      <<EligibleJob(1, 1, 3, 500, <<>>, FALSE)>>,
      <<EligibleJob(1, 1, 3, 600, <<>>, FALSE)>>,
      <<EligibleJob(1, 1, None, 20, <<>>, FALSE)>>,
      <<EligibleJob(1, 1, 2, 0, <<>>, FALSE)>> }

\* A caller asks for the ETA of a candidate on a technician of the list.
CalcEta ==
    /\ pc = "done"
    /\ \E i \in 1..Len(technicians), jobs \in EtaCandidates :
         /\ eta_query' = [tech |-> technicians[i], jobs |-> jobs,
                          eta |-> calculate_eta(technicians[i], jobs),
                          before |-> schedule[technicians[i]]]
         /\ schedule' = [schedule EXCEPT ![technicians[i]] =
                            schedule_after_calculate_eta(technicians[i], jobs)]
    /\ pc' = "queried"
    /\ UNCHANGED <<technicians, service, tech_index, all_units, fixed_time_units,
                   remaining_dynamic_units, pending_fixed_time_units, current_day,
                   all_daily_start_times, budget, iterations, lastDay, lastFetch,
                   report, asgVars, callVars>>

\* ---------------------------------------------------------- assign_jobs
\* The van of a technician: technician 1 carries the ADAS rig, technician 2
\* the ADAS rig and the programmer.
assigned_van(technician) ==
    [is_none |-> FALSE,
     equipment |-> IF technician = 1 THEN {"adas"} ELSE {"adas", "prog"}]

\* A Python list handed over as an argument.
PyList(items) == [is_list |-> TRUE, items |-> items]

\* models.Technician.has_equipment: some item of the van has a model equal
\* to the argument.  A model is a str, and a str is never equal to a list.
has_equipment(technician, required_equipment_model) ==
    IF assigned_van(technician).is_none THEN FALSE
    ELSE \E model \in assigned_van(technician).equipment :
            /\ ~required_equipment_model.is_list
            /\ model = required_equipment_model.model

RequiredModels(jobs) ==
    UNION {Range(jobs[i].equipment_requirements) : i \in 1..Len(jobs)}

\* models.Technician.has_all_equipment
has_all_equipment(technician, jobs) ==
    IF assigned_van(technician).is_none THEN RequiredModels(jobs) = {}
    ELSE RequiredModels(jobs) \subseteq assigned_van(technician).equipment

\* The jobs a pass can be handed: order, address, duration, equipment and
\* fixed_assignment flag.  Order 1 is at address 2, order 2 at address 3.
JobTemplates ==
    << [order_id |-> 1, location |-> 2, job_duration |-> 20,
        equipment_requirements |-> <<"adas">>, fixed_assignment |-> FALSE],
       [order_id |-> 2, location |-> 3, job_duration |-> 20,
        equipment_requirements |-> <<"adas">>, fixed_assignment |-> FALSE],
       [order_id |-> 1, location |-> 2, job_duration |-> 30,
        equipment_requirements |-> <<"prog">>, fixed_assignment |-> FALSE],
       [order_id |-> 2, location |-> 3, job_duration |-> 600,
        equipment_requirements |-> <<>>, fixed_assignment |-> FALSE],
       [order_id |-> 2, location |-> 3, job_duration |-> 20,
        equipment_requirements |-> <<"immo">>, fixed_assignment |-> FALSE],
       [order_id |-> 1, location |-> 2, job_duration |-> 20,
        equipment_requirements |-> <<"adas">>, fixed_assignment |-> TRUE] >>

\* The job lists of at most n jobs, ids first_id, first_id + 1, ..., built
\* from the templates lo and up in non-decreasing order.
RECURSIVE JobLists(_, _, _)
JobLists(n, lo, first_id) ==
    IF n = 0 THEN {<<>>}
    ELSE {<<>>} \cup
         UNION {{<<EligibleJob(first_id, JobTemplates[k].order_id,
                               JobTemplates[k].location, JobTemplates[k].job_duration,
                               JobTemplates[k].equipment_requirements,
                               JobTemplates[k].fixed_assignment)>> \o rest :
                   rest \in JobLists(n - 1, k, first_id + 1)} :
                  k \in lo..Len(JobTemplates)}

IsNotFixedAssignment(job) == ~job.fixed_assignment

\* A filter that lets every job of the batch through.
all_jobs_considered(jobs) == jobs

\* The jobs assign_jobs considers: those without fixed_assignment.
dynamic_jobs_to_consider(jobs) == SelectSeq(jobs, IsNotFixedAssignment)

\* The keys of jobs_by_order_id, in the order a dict keeps them.
RECURSIVE OrderKeys(_, _)
OrderKeys(jobs, seen) ==
    IF jobs = <<>> THEN <<>>
    ELSE IF Head(jobs).order_id \in seen THEN OrderKeys(Tail(jobs), seen)
    ELSE <<Head(jobs).order_id>> \o OrderKeys(Tail(jobs), seen \cup {Head(jobs).order_id})

\* A grouping that puts every job of the batch under every order id.
jobs_of_every_order(jobs, order_id) == dynamic_jobs_to_consider(jobs)

\* jobs_by_order_id[order_id]
jobs_by_order_id(jobs, order_id) ==
    SelectSeq(dynamic_jobs_to_consider(jobs), LAMBDA job : job.order_id = order_id)

\* A dict that also keeps the technicians calculate_eta answered None for.
etas_keeping_none(tech_list, jobs) ==
    [t \in Range(tech_list) |-> calculate_eta(t, jobs)]

\* The dict etas: the technicians of the list with an ETA for the jobs.
EtasOf(tech_list, jobs) ==
    [t \in {u \in Range(tech_list) : calculate_eta(u, jobs) # None} |->
        calculate_eta(t, jobs)]

\* A choice that takes the first technician that has an ETA at all.
first_tech_with_eta(tech_list, etas) ==
    tech_list[CHOOSE i \in 1..Len(tech_list) :
                 /\ tech_list[i] \in DOMAIN etas
                 /\ \A j \in 1..(i - 1) : tech_list[j] \notin DOMAIN etas]

\* min(etas, key=etas.get): the first key, in insertion order, whose ETA no
\* other key undercuts.
best_tech(tech_list, etas) ==
    LET IsMin(i) == /\ tech_list[i] \in DOMAIN etas
                    /\ \A u \in DOMAIN etas : etas[tech_list[i]] <= etas[u]
    IN tech_list[CHOOSE i \in 1..Len(tech_list) :
                    IsMin(i) /\ \A j \in 1..(i - 1) : ~IsMin(j)]

\* scheduler.assign_job_to_technician: the write it sends.  Whether the API
\* accepted it is printed and not acted upon.
assign_job_to_technician(job, technician) ==
    [job |-> job.id, order_id |-> job.order_id, tech |-> technician,
     status |-> "assigned"]

\* The writes of one decision, with the ETA that decided it and the length
\* and first job of the unit the ETA was computed for.
DecisionWrites(jobs, technician, eta) ==
    [i \in 1..Len(jobs) |->
        assign_job_to_technician(jobs[i], technician)
          @@ [eta |-> eta, duration |-> SumSeq(JobDurations(jobs)),
              unit |-> jobs[1].id]]

\* The schedules after calculate_eta has been asked about the technicians of
\* the list.
ScheduleAfterEtas(tech_list, jobs) ==
    [t \in Technicians |->
        IF t \in Range(tech_list) THEN schedule_after_calculate_eta(t, jobs)
        ELSE schedule[t]]

\* assign_jobs is called: the jobs are filtered and grouped by order.
BeginAssign ==
    /\ pc = "idle"
    /\ \E jobs \in JobLists(MaxJobs, 1, 1) :
         /\ all_eligible_jobs' = jobs
         /\ order_queue' = OrderKeys(dynamic_jobs_to_consider(jobs), {})
    /\ jobs_requiring_individual_assignment' = <<>>
    /\ individual_index' = 1
    /\ assignments' = <<>>
    /\ pc' = IF order_queue' # <<>> THEN "orders" ELSE "assigned"
    /\ UNCHANGED <<technicians, service, schedule, tech_index, all_units,
                   fixed_time_units, remaining_dynamic_units, pending_fixed_time_units,
                   current_day, all_daily_start_times, budget, iterations, lastDay,
                   lastFetch, report, eta_query, callVars>>

\* One pass of the loop over the orders.
AssignOrder ==
    /\ pc = "orders"
    /\ LET order_id == Head(order_queue)
           order_jobs == jobs_by_order_id(all_eligible_jobs, order_id)
           fully_equipped_techs ==
               IF Len(order_jobs) > 1
               THEN SelectSeq(technicians, LAMBDA t : has_all_equipment(t, order_jobs))
               ELSE <<>>
           etas == EtasOf(fully_equipped_techs, order_jobs)
           best_tech_for_order == best_tech(fully_equipped_techs, etas)
       IN /\ IF DOMAIN etas # {}
             THEN /\ assignments' =
                        assignments \o DecisionWrites(order_jobs, best_tech_for_order,
                                                      etas[best_tech_for_order])
                  /\ UNCHANGED jobs_requiring_individual_assignment
             ELSE /\ jobs_requiring_individual_assignment' =
                        jobs_requiring_individual_assignment \o order_jobs
                  /\ UNCHANGED assignments
          /\ schedule' = ScheduleAfterEtas(fully_equipped_techs, order_jobs)
    /\ order_queue' = Tail(order_queue)
    /\ pc' = IF Tail(order_queue) # <<>> THEN "orders"
             ELSE IF jobs_requiring_individual_assignment' # <<>> THEN "jobs"
             ELSE "assigned"
    /\ UNCHANGED <<technicians, service, tech_index, all_units, fixed_time_units,
                   remaining_dynamic_units, pending_fixed_time_units, current_day,
                   all_daily_start_times, budget, iterations, lastDay, lastFetch,
                   report, eta_query, callVars, all_eligible_jobs, individual_index>>

\* One pass of the loop over the jobs left for individual assignment.
AssignJob ==
    /\ pc = "jobs"
    /\ LET job == jobs_requiring_individual_assignment[individual_index]
           individual_eligible_techs ==
               SelectSeq(technicians,
                         LAMBDA t : has_equipment(t, PyList(job.equipment_requirements)))
           etas == EtasOf(individual_eligible_techs, <<job>>)
           best_tech_for_job == best_tech(individual_eligible_techs, etas)
       IN /\ assignments' =
                IF DOMAIN etas # {}
                THEN assignments \o DecisionWrites(<<job>>, best_tech_for_job,
                                                   etas[best_tech_for_job])
                ELSE assignments
          /\ schedule' = ScheduleAfterEtas(individual_eligible_techs, <<job>>)
    /\ individual_index' = individual_index + 1
    /\ pc' = IF individual_index < Len(jobs_requiring_individual_assignment)
             THEN "jobs" ELSE "assigned"
    /\ UNCHANGED <<technicians, service, tech_index, all_units, fixed_time_units,
                   remaining_dynamic_units, pending_fixed_time_units, current_day,
                   all_daily_start_times, budget, iterations, lastDay, lastFetch,
                   report, eta_query, callVars, all_eligible_jobs, order_queue,
                   jobs_requiring_individual_assignment>>

\* ------------------------------------------------------- specifications
\* The rebuild of the schedules: update_job_queues_and_routes.
Next ==
    \/ StartUpdate
    \/ FetchRaises
    \/ FetchNothing
    \/ FetchJobs
    \/ SkipDay
    \/ SkipDayNoLocation
    \/ PlanDay
    \/ FinishTech

Spec == Init /\ [][Next]_vars

\* Every plan Init lets a technician start with is one a rebuild leaves.
PriorPlanReached ==
    \E t \in Technicians :
        /\ pc = "done"
        /\ report[t].done
        /\ service # "short"
        /\ schedule[t] = PriorPlan(service, t)

\* calculate_eta asked about the schedule a rebuild has left to the one
\* technician it was run for.
InitEta == Init /\ Len(technicians) = 1

NextEta ==
    \/ StartUpdate
    \/ FetchRaises
    \/ FetchNothing
    \/ FetchJobs
    \/ SkipDay
    \/ SkipDayNoLocation
    \/ PlanDay
    \/ FinishTech
    \/ CalcEta

SpecEta == InitEta /\ [][NextEta]_vars

\* An assign_jobs pass, up to the point where it hands over to the rebuild.
NextAssign ==
    \/ BeginAssign
    \/ AssignOrder
    \/ AssignJob
    \/ StartUpdate

SpecAssign == Init /\ [][NextAssign]_vars

\* --------------------------------------------- the helpers of utils.py
\* Largest number of units handed to one call of a helper.
MaxHelperUnits == 2

\* The units a helper can be handed: a duration of zero, one hour or a
\* hundred minutes, no fixed time or one of four, and a fixed-time unit
\* whose location is missing.
HelperUnitTemplates ==
    {[location |-> 2, duration |-> d, fixed |-> f] :
        d \in {0, 60, 100}, f \in {None, 540, 600, 660, 700}}
    \cup {[location |-> None, duration |-> 60, fixed |-> 600]}

RECURSIVE HelperUnitLists(_, _)
HelperUnitLists(n, first_id) ==
    IF n = 0 THEN {<<>>}
    ELSE {<<>>} \cup
         {<<SchedulableUnit(first_id, 1, t.location, <<t.duration>>, t.fixed)>> \o rest :
            t \in HelperUnitTemplates, rest \in HelperUnitLists(n - 1, first_id + 1)}

\* The working days a helper is asked about, <<day_start, day_end>>: three
\* ordinary days, an empty day and a day that ends before it starts.
HelperDays == {<<540, 720>>, <<540, 780>>, <<560, 700>>, <<540, 540>>, <<720, 540>>}

\* The fixed units the loop over fixed_units_today accepts: those that
\* move last_event_end_time.
RECURSIVE AcceptedWalk(_, _, _)
AcceptedWalk(fixed_units_today, last_event_end_time, day_end) ==
    IF fixed_units_today = <<>> THEN <<>>
    ELSE LET fixed_unit == Head(fixed_units_today)
             fixed_start == fixed_unit.fixed_schedule_time
             fixed_end == fixed_start + fixed_unit.duration
         IN IF fixed_unit.duration <= 0 \/ fixed_unit.location = None
            THEN AcceptedWalk(Tail(fixed_units_today), last_event_end_time, day_end)
            ELSE IF fixed_start >= last_event_end_time /\ fixed_end <= day_end
            THEN <<fixed_unit>> \o AcceptedWalk(Tail(fixed_units_today), fixed_end, day_end)
            ELSE AcceptedWalk(Tail(fixed_units_today), last_event_end_time, day_end)

\* A caller asks for the free windows of a day.
CallWindows ==
    /\ helper_call = NoCall
    /\ \E units \in HelperUnitLists(MaxHelperUnits, 1), day \in HelperDays :
         helper_call' =
            [kind |-> "windows", units |-> units,
             day_start |-> day[1], day_end |-> day[2], start_location |-> 1,
             result |-> calculate_daily_available_windows(units, day[1], day[2], 1)]
    /\ UNCHANGED <<technicians, service, updVars, eta_query, asgVars, payload, response>>

\* The window lists the placement is handed: what the windows helper
\* returns for a day.
HelperWindowLists ==
    {calculate_daily_available_windows(units, day[1], day[2], 1) :
        units \in HelperUnitLists(MaxHelperUnits - 1, 1), day \in HelperDays}

\* The dynamic unit lists the placement is handed.
HelperDynamicLists ==
    {units \in HelperUnitLists(MaxHelperUnits, 1) :
        \A i \in 1..Len(units) : IsDynamic(units[i])}

\* A caller asks for the placement of dynamic units into windows.
CallFit ==
    /\ helper_call = NoCall
    /\ \E units \in HelperDynamicLists, windows \in HelperWindowLists :
         helper_call' =
            [kind |-> "fit", units |-> units, windows |-> windows,
             result |-> fit_dynamic_units_into_windows(units, windows)]
    /\ UNCHANGED <<technicians, service, updVars, eta_query, asgVars, payload, response>>

InitHelpers ==
    /\ Init
    /\ technicians = <<1>>
    /\ service = "default"
    /\ schedule = [t \in Technicians |-> EmptySchedule]

NextHelpers ==
    \/ CallWindows
    \/ CallFit

SpecHelpers == InitHelpers /\ [][NextHelpers]_vars

\* ---- update_etas_for_schedule called on its own
\* The days a schedule handed to update_etas_for_schedule has units on: the
\* first and the second planning day and the first Saturday.
PropagationDays == {1, 2, 6}

\* The start times the caller hands over for the units of a day: none, one
\* for every unit, or one for the first unit only.
StartTimesFor(units, day) ==
    {<<>>}
    \cup {[id \in ids |-> DayBase(day) + 600 + 100 * id] :
            ids \in {UnitIds(units), UnitIds(units) \cap {1}} \ {{}}}

\* A unit whose jobs carry the estimates of an earlier cycle, which put
\* the unit late in the afternoon of the day.
WithEarlierEstimates(unit, day) ==
    [unit EXCEPT !.jobs = StackJobs(unit.jobs, DayBase(day) + 1000)]

\* The unit lists a day of a schedule can hold: units built from freshly
\* created jobs, or from jobs that were estimated in an earlier cycle.
ScheduledUnitLists(day) ==
    LET fresh == UnitLists(MaxHelperUnits, 1) \ {<<>>}
    IN fresh \cup {[i \in 1..Len(units) |-> WithEarlierEstimates(units[i], day)] :
                     units \in fresh}

\* routing.update_etas_for_schedule on the schedule of a technician with
\* units on one day.
CallUpdateEtas ==
    /\ helper_call = NoCall
    /\ \E technician \in Technicians, day \in PropagationDays :
         \E units \in ScheduledUnitLists(day) :
         \E unit_start_times \in StartTimesFor(units, day) :
            /\ helper_call' =
                  [kind |-> "etas", technician |-> technician, day |-> day,
                   units |-> units, unit_start_times |-> unit_start_times]
            /\ schedule' =
                  [schedule EXCEPT ![technician] =
                     update_etas_for_schedule(
                        technician, [EmptySchedule EXCEPT ![day] = units],
                        [NoStartTimes EXCEPT ![day] = unit_start_times])]
    /\ UNCHANGED <<technicians, service, pc, tech_index, all_units, fixed_time_units,
                   remaining_dynamic_units, pending_fixed_time_units, current_day,
                   all_daily_start_times, budget, iterations, lastDay, lastFetch, report,
                   eta_query, asgVars, payload, response>>

InitPropagation ==
    /\ Init
    /\ technicians = <<1>>
    /\ schedule = [t \in Technicians |-> EmptySchedule]

NextPropagation == CallUpdateEtas

SpecPropagation == InitPropagation /\ [][NextPropagation]_vars

\* ------------------------------- the optimize service (main.py)
\* Times of the service are seconds.  An ISO 8601 string is the wall-clock
\* time it shows and the UTC offset it carries.
Iso(local, offset) == [local |-> local, offset |-> offset]

\* main.iso_to_seconds: seconds since the epoch, in UTC.
iso_to_seconds(iso_str) == iso_str.local - iso_str.offset

\* main.seconds_to_iso: the UTC datetime with the suffix Z.
seconds_to_iso(seconds) == Iso(seconds, 0)

\* The cost the callbacks return for a pair they cannot look up.
UnreachableCost == 999999

base_penalty == 100000

\* The week added to the horizon of the time dimension.
WeekBuffer == 604800

\* Largest number of items of one request.
MaxItems == 2

RECURSIVE MinOfSet(_)
MinOfSet(S) ==
    LET x == CHOOSE y \in S : TRUE
    IN IF S = {x} THEN x
       ELSE LET m == MinOfSet(S \ {x}) IN IF x <= m THEN x ELSE m

\* travel_time_callback: the matrix entry, the large cost when there is none.
travel_time_callback(p, from_node, to_node) ==
    IF from_node \notin Range(p.locations) \/ to_node \notin Range(p.locations)
    THEN UnreachableCost
    ELSE IF <<from_node, to_node>> \in DOMAIN p.travelTimeMatrix
    THEN p.travelTimeMatrix[<<from_node, to_node>>]
    ELSE UnreachableCost

\* The positions in payload.items of the items at a location.
ItemsAt(p, node) == {i \in 1..Len(p.items) : p.items[i].locationIndex = node}

\* The position of the last item at the location, 0 when there is none.
last_item_at_location(p, loc_idx) ==
    IF ItemsAt(p, loc_idx) = {} THEN 0 ELSE MaxOfSet(ItemsAt(p, loc_idx))

\* find_item_by_location: the position of the first item at the location,
\* 0 when there is none.
find_item_by_location(p, loc_idx) ==
    IF ItemsAt(p, loc_idx) = {} THEN 0 ELSE MinOfSet(ItemsAt(p, loc_idx))

\* service_time_callback: the duration of the first item at the node.
service_time_callback(p, node) ==
    IF find_item_by_location(p, node) = 0 THEN 0
    ELSE p.items[find_item_by_location(p, node)].durationSeconds

\* A transit that leaves out the service at the node left.
transit_without_service_time(p, from_node, to_node) ==
    travel_time_callback(p, from_node, to_node)

\* transit_plus_service_time_callback: travel(from, to) + service(from).
transit_plus_service_time_callback(p, from_node, to_node) ==
    LET travel == travel_time_callback(p, from_node, to_node)
        service_time == service_time_callback(p, from_node)
    IN IF travel >= UnreachableCost \/ service_time >= UnreachableCost
       THEN UnreachableCost
       ELSE travel + service_time

planning_epoch_seconds(p) ==
    MinOfSet({iso_to_seconds(p.technicians[v].earliestStartTimeISO) :
                v \in 1..Len(p.technicians)})

horizon_with_buffer(p) ==
    Max2(0, MaxOfSet({iso_to_seconds(p.technicians[v].latestEndTimeISO)
                        - planning_epoch_seconds(p) : v \in 1..Len(p.technicians)})
            + WeekBuffer)

start_seconds_rel(p, v) ==
    Max2(0, iso_to_seconds(p.technicians[v].earliestStartTimeISO)
              - planning_epoch_seconds(p))

\* end_seconds_rel, after the adjustment of a window that ends before it
\* starts.
end_seconds_rel(p, v) ==
    LET e == Max2(0, iso_to_seconds(p.technicians[v].latestEndTimeISO)
                       - planning_epoch_seconds(p))
    IN IF start_seconds_rel(p, v) > e THEN start_seconds_rel(p, v) ELSE e

\* The nodes the index manager turns into start and end nodes.
DepotNodes(p) ==
    UNION {{p.technicians[v].startLocationIndex, p.technicians[v].endLocationIndex} :
             v \in 1..Len(p.technicians)}

\* The nodes a vehicle can visit between its start and its end.
VisitNodes(p) == Range(p.locations) \ DepotNodes(p)

\* item_id_to_payload_index: the last item that carries the id, 0 for none.
item_id_to_payload_index(p, item_id) ==
    MaxOfSet({i \in 1..Len(p.items) : p.items[i].id = item_id})

\* Fixed times taken as seconds since the Unix epoch, not since the
\* planning epoch.
fixed_times_since_unix_epoch(p, node) ==
    {iso_to_seconds(p.fixedConstraints[c].fixedTimeISO) :
        c \in {k \in 1..Len(p.fixedConstraints) :
                 /\ item_id_to_payload_index(p, p.fixedConstraints[k].itemId) # 0
                 /\ p.items[item_id_to_payload_index(p, p.fixedConstraints[k].itemId)]
                       .locationIndex = node}}

\* The values the fixed constraints pin the time of a node to.
FixedTimes(p, node) ==
    {Max2(0, iso_to_seconds(p.fixedConstraints[c].fixedTimeISO)
               - planning_epoch_seconds(p)) :
        c \in {k \in 1..Len(p.fixedConstraints) :
                 /\ item_id_to_payload_index(p, p.fixedConstraints[k].itemId) # 0
                 /\ p.items[item_id_to_payload_index(p, p.fixedConstraints[k].itemId)]
                       .locationIndex = node}}

max_priority(p) == MaxOfSet({p.items[i].priority : i \in 1..Len(p.items)})

eligible_vehicles(p, item) ==
    {v \in 1..Len(p.technicians) : p.technicians[v].id \in item.eligibleTechnicianIds}

\* Whether the loop over the items adds a disjunction for the item.
HasDisjunction(p, i) ==
    /\ p.items[i].locationIndex \in Range(p.locations)
    /\ p.items[i].locationIndex \notin DepotNodes(p)
    /\ eligible_vehicles(p, p.items[i]) # {}

priority_penalty(p, item) ==
    Max2(0, base_penalty * (max_priority(p) - item.priority + 1))

RECURSIVE SumOver(_, _)
SumOver(f, S) ==
    IF S = {} THEN 0
    ELSE LET x == CHOOSE y \in S : TRUE IN f[x] + SumOver(f, S \ {x})

\* What the objective charges for leaving a node out.
DropPenalty(p, node) ==
    SumOver([i \in 1..Len(p.items) |-> priority_penalty(p, p.items[i])],
            {i \in ItemsAt(p, node) : HasDisjunction(p, i)})

\* A node without a disjunction has to be visited.
Mandatory(p, node) == \A i \in ItemsAt(p, node) : ~HasDisjunction(p, i)

\* The sequences without repetition over a set of nodes.
RECURSIVE SeqsOver(_)
SeqsOver(S) ==
    {<<>>} \cup UNION {{<<x>> \o r : r \in SeqsOver(S \ {x})} : x \in S}

\* The ways to give every vehicle a route over disjoint nodes.
RECURSIVE Plans(_, _)
Plans(num_vehicles, S) ==
    IF num_vehicles = 0 THEN {<<>>}
    ELSE UNION {{<<r>> \o rest : rest \in Plans(num_vehicles - 1, S \ Range(r))} :
                  r \in SeqsOver(S)}

\* The path of a vehicle: start node, stops, end node.
PathOf(p, v, route) ==
    <<p.technicians[v].startLocationIndex>> \o route
       \o <<p.technicians[v].endLocationIndex>>

\* The time dimension along a path, counted from the value at the start
\* node: the slack is 0, so each node adds exactly its transit.
RECURSIVE Offsets(_, _, _)
Offsets(p, path, at) ==
    IF Len(path) <= 1 THEN <<at>>
    ELSE <<at>> \o Offsets(p, Tail(path),
                           at + transit_plus_service_time_callback(p, path[1], path[2]))

\* The start values the fixed constraints of a route leave.
FixedStarts(p, v, route) ==
    LET off == Offsets(p, PathOf(p, v, route), 0)
    IN UNION {{f - off[k + 1] : f \in FixedTimes(p, route[k])} : k \in 1..Len(route)}

\* The value of the time dimension at the start node: the least one the
\* constraints admit.
StartCumul(p, v, route) ==
    IF FixedStarts(p, v, route) = {} THEN start_seconds_rel(p, v)
    ELSE MinOfSet(FixedStarts(p, v, route))

\* Whether the time dimension admits the route for the vehicle.
VehicleFeasible(p, v, route) ==
    LET off == Offsets(p, PathOf(p, v, route), 0)
        c == StartCumul(p, v, route)
    IN /\ Cardinality(FixedStarts(p, v, route)) <= 1
       /\ start_seconds_rel(p, v) <= c
       /\ c <= end_seconds_rel(p, v)
       /\ start_seconds_rel(p, v) <= c + Last(off)
       /\ c + Last(off) <= end_seconds_rel(p, v)
       /\ \A k \in 1..Len(off) : c + off[k] <= horizon_with_buffer(p)

\* The plans the routing model admits.
Solutions(p) ==
    IF \E node \in Range(p.locations) :
          \/ Cardinality(FixedTimes(p, node)) > 1
          \/ \E f \in FixedTimes(p, node) : f > horizon_with_buffer(p)
    THEN {}
    ELSE {plan \in Plans(Len(p.technicians), VisitNodes(p)) :
            /\ \A node \in VisitNodes(p) :
                  Mandatory(p, node) => \E v \in 1..Len(plan) : node \in Range(plan[v])
            /\ \A v \in 1..Len(plan) : VehicleFeasible(p, v, plan[v])}

\* The travel time of the edges of a path.
RECURSIVE PathTravel(_, _)
PathTravel(p, path) ==
    IF Len(path) <= 1 THEN 0
    ELSE travel_time_callback(p, path[1], path[2]) + PathTravel(p, Tail(path))

\* The objective: the travel time of the routes in use and the penalties of
\* the nodes left out.
PlanCost(p, plan) ==
    SumOver([v \in 1..Len(plan) |->
                IF plan[v] = <<>> THEN 0 ELSE PathTravel(p, PathOf(p, v, plan[v]))],
            1..Len(plan))
    + SumOver([node \in VisitNodes(p) |-> DropPenalty(p, node)],
              {node \in VisitNodes(p) : \A v \in 1..Len(plan) : node \notin Range(plan[v])})

\* The plans of least objective value among the admitted ones.
LeastCost(p, admitted) ==
    {plan \in admitted : \A other \in admitted : PlanCost(p, plan) <= PlanCost(p, other)}

\* routing.SolveWithParameters: the plans of least cost among those the
\* model admits; none when it admits none.
SolveWithParameters(p) == LeastCost(p, Solutions(p))

\* The stops of a vehicle's route: one per visited node that has an item.
RECURSIVE RouteStopsFrom(_, _, _, _)
RouteStopsFrom(p, v, route, k) ==
    IF k > Len(route) THEN <<>>
    ELSE LET path == PathOf(p, v, route)
             off == Offsets(p, path, 0)
             c == StartCumul(p, v, route)
             i == find_item_by_location(p, route[k])
             segment_travel_time == travel_time_callback(p, path[k], path[k + 1])
             departure_from_index_rel ==
                 IF k = 1 THEN start_seconds_rel(p, v)
                 ELSE c + off[k] + service_time_callback(p, path[k])
             arrival_at_next_abs ==
                 departure_from_index_rel + segment_travel_time + planning_epoch_seconds(p)
             current_start_time_abs == c + off[k + 1] + planning_epoch_seconds(p)
         IN (IF i = 0 THEN <<>>
             ELSE <<[itemId |-> p.items[i].id,
                     arrivalTimeISO |-> seconds_to_iso(arrival_at_next_abs),
                     startTimeISO |-> seconds_to_iso(current_start_time_abs),
                     endTimeISO |-> seconds_to_iso(current_start_time_abs
                                                     + p.items[i].durationSeconds)]>>)
            \o RouteStopsFrom(p, v, route, k + 1)

\* A total that leaves out the edge into the end depot.
RECURSIVE total_travel_without_final_leg(_, _)
total_travel_without_final_leg(p, path) ==
    IF Len(path) <= 2 THEN 0
    ELSE travel_time_callback(p, path[1], path[2])
         + total_travel_without_final_leg(p, Tail(path))

\* total_travel_time_seconds: the edges with a travel time the matrix knows.
RECURSIVE TotalTravel(_, _)
TotalTravel(p, path) ==
    IF Len(path) <= 1 THEN 0
    ELSE (IF path[1] # path[2] /\ travel_time_callback(p, path[1], path[2]) < UnreachableCost
          THEN travel_time_callback(p, path[1], path[2]) ELSE 0)
         + TotalTravel(p, Tail(path))

\* A re-check that lets every route pass.
route_always_valid(p, v, route_stops) == TRUE

\* The re-check of the eligibility of the technician for the stops.
is_route_valid(p, v, route_stops) ==
    \A k \in 1..Len(route_stops) :
       item_id_to_payload_index(p, route_stops[k].itemId) = 0
       \/ p.technicians[v].id
             \in p.items[item_id_to_payload_index(p, route_stops[k].itemId)]
                   .eligibleTechnicianIds

TechnicianRoute(p, v, route) ==
    LET route_stops == RouteStopsFrom(p, v, route, 1)
    IN [technicianId |-> p.technicians[v].id,
        stops |-> route_stops,
        totalTravelTimeSeconds |-> TotalTravel(p, PathOf(p, v, route)),
        totalDurationSeconds |->
            iso_to_seconds(Last(route_stops).endTimeISO)
              - iso_to_seconds(route_stops[1].arrivalTimeISO)]

\* The vehicles whose route is returned: it has stops and passes the
\* re-check.
ReturnedVehicles(p, plan) ==
    {v \in 1..Len(plan) :
        /\ RouteStopsFrom(p, v, plan[v], 1) # <<>>
        /\ is_route_valid(p, v, RouteStopsFrom(p, v, plan[v], 1))}

RECURSIVE RoutesFrom(_, _, _)
RoutesFrom(p, plan, v) ==
    IF v > Len(plan) THEN <<>>
    ELSE (IF v \in ReturnedVehicles(p, plan)
          THEN <<TechnicianRoute(p, v, plan[v])>> ELSE <<>>)
         \o RoutesFrom(p, plan, v + 1)

ItemIds(p) == [i \in 1..Len(p.items) |-> p.items[i].id]

OptimizationResponsePayload(status, message, routes, unassignedItemIds) ==
    [kind |-> "response", status |-> status, message |-> message, routes |-> routes,
     unassignedItemIds |-> unassignedItemIds]

\* assigned_item_ids: the items of the stops of the returned routes.
assigned_item_ids(routes) ==
    UNION {{routes[r].stops[k].itemId : k \in 1..Len(routes[r].stops)} :
             r \in 1..Len(routes)}

\* unassigned_item_ids: the items of the request without a stop, in the
\* order of the request.
unassigned_item_ids(p, routes) ==
    SelectSeq(ItemIds(p), LAMBDA id : id \notin assigned_item_ids(routes))

\* A status that reports every response with an unassigned item as partial.
status_without_error(p, routes, unassigned) ==
    IF unassigned = <<>>
    THEN OptimizationResponsePayload("success", "all items scheduled", routes, unassigned)
    ELSE OptimizationResponsePayload("partial", "some items not scheduled", routes,
                                     unassigned)

\* A response that reports every plan with an unassigned item as partial.
response_without_error_status(p, plan) ==
    status_without_error(p, RoutesFrom(p, plan, 1),
                         unassigned_item_ids(p, RoutesFrom(p, plan, 1)))

\* The status and the message for the routes and the unassigned items.
StatusResponse(p, routes, unassigned) ==
    IF unassigned = <<>>
    THEN OptimizationResponsePayload("success", "all items scheduled", routes, unassigned)
    ELSE IF Len(unassigned) < Len(p.items)
    THEN OptimizationResponsePayload("partial", "some items not scheduled", routes,
                                     unassigned)
    ELSE OptimizationResponsePayload("error", "no routes could be assigned", routes,
                                     unassigned)

\* The response built from a plan the solver returned.
ResponseFor(p, plan) ==
    StatusResponse(p, RoutesFrom(p, plan, 1),
                   unassigned_item_ids(p, RoutesFrom(p, plan, 1)))

\* The responses for the plans the solver can return: the error response
\* when it returns none.
ResponsesFor(p, found) ==
    IF found = {}
    THEN {OptimizationResponsePayload("error", "no solution found", <<>>, ItemIds(p))}
    ELSE {ResponseFor(p, plan) : plan \in found}

\* main.optimize_schedule: the responses the call can give.
optimize_schedule(p) ==
    IF p.items = <<>>
    THEN {OptimizationResponsePayload("success", "no items", <<>>, <<>>)}
    ELSE IF p.technicians = <<>>
    THEN {OptimizationResponsePayload("error", "no technicians", <<>>, ItemIds(p))}
    ELSE ResponsesFor(p, SolveWithParameters(p))

\* ---- the requests the service is sent
\* 08:00, 09:00, 10:00, 14:00 and 17:00 of the planning date, in seconds.
T0800 == Iso(28800, 0)
T0900 == Iso(32400, 0)
T1000 == Iso(36000, 0)
T1400 == Iso(50400, 0)
T1700 == Iso(61200, 0)

OptimizationTechnician(id, earliestStartTimeISO, latestEndTimeISO) ==
    [id |-> id, startLocationIndex |-> 0, endLocationIndex |-> 1,
     earliestStartTimeISO |-> earliestStartTimeISO,
     latestEndTimeISO |-> latestEndTimeISO]

\* The technician lists of a request: none, technician 1 with a working
\* day, with one hour, with a window of some 35 hours, and technicians 1
\* and 2 with a working day each, the second written with a UTC offset.
RequestTechnicians ==
    { <<>>,
      <<OptimizationTechnician(1, T0800, T1700)>>,
      <<OptimizationTechnician(1, T0800, T0900)>>,
      <<OptimizationTechnician(1, T0800, Iso(28800 + 125000, 0))>>,
      <<OptimizationTechnician(1, T0800, T1700),
        OptimizationTechnician(2, Iso(32400, 3600), Iso(64800, 3600))>> }

\* Two technicians of which the first has one hour and the second, written
\* with a UTC offset, a working day.
ShortAndLongDay ==
    <<OptimizationTechnician(1, T0800, T0900),
      OptimizationTechnician(2, Iso(32400, 3600), Iso(64800, 3600))>>

\* Two technicians of which the second has its earliest start after its
\* latest end, and its start depot where its end depot is.
SecondStartsAfterItsEnd ==
    <<OptimizationTechnician(1, T0800, T1700),
      [OptimizationTechnician(2, T1700, T0800) EXCEPT !.startLocationIndex = 1]>>

\* One technician with a window of some twelve days.
TwelveDays == <<OptimizationTechnician(1, T0800, Iso(28800 + 1100000, 0))>>

\* The items of a request: duration, priority, eligible technicians and,
\* where the request pins the start, the fixed time; the last but one sits
\* at the start depot of the technicians, and the last one, when it is not
\* the first item of its request, at the location of the item before it.
ItemTemplates ==
    << [durationSeconds |-> 1800, priority |-> 1, eligibleTechnicianIds |-> {1},
        fixed |-> None],
       [durationSeconds |-> 1800, priority |-> 2, eligibleTechnicianIds |-> {1, 2},
        fixed |-> None],
       [durationSeconds |-> 3600, priority |-> 1, eligibleTechnicianIds |-> {1},
        fixed |-> None],
       [durationSeconds |-> 3600, priority |-> 2, eligibleTechnicianIds |-> {1},
        fixed |-> None],
       [durationSeconds |-> 1800, priority |-> 1, eligibleTechnicianIds |-> {1},
        fixed |-> 36000],
       [durationSeconds |-> 1800, priority |-> 1, eligibleTechnicianIds |-> {1},
        fixed |-> 50400],
       [durationSeconds |-> 1800, priority |-> 2, eligibleTechnicianIds |-> {2},
        fixed |-> None],
       [durationSeconds |-> 1800, priority |-> 1, eligibleTechnicianIds |-> {},
        fixed |-> None],
       [durationSeconds |-> 40000, priority |-> 2, eligibleTechnicianIds |-> {1},
        fixed |-> None],
       [durationSeconds |-> 1800, priority |-> 12, eligibleTechnicianIds |-> {1},
        fixed |-> None],
       [durationSeconds |-> 1800, priority |-> 1, eligibleTechnicianIds |-> {1},
        fixed |-> None, depot |-> TRUE],
       [durationSeconds |-> 3600, priority |-> 1, eligibleTechnicianIds |-> {1},
        fixed |-> None, shared |-> TRUE] >>

\* The item lists of at most n items from the templates lo and up; item
\* number k has the id k and, unless it sits at a depot, a location of its
\* own after the two depots.
RECURSIVE ItemLists(_, _, _)
ItemLists(n, lo, first_id) ==
    IF n = 0 THEN {<<>>}
    ELSE {<<>>} \cup
         UNION {{<<[id |-> first_id, locationIndex |-> first_id + 1,
                    durationSeconds |-> ItemTemplates[k].durationSeconds,
                    priority |-> ItemTemplates[k].priority,
                    eligibleTechnicianIds |-> ItemTemplates[k].eligibleTechnicianIds,
                    fixed |-> ItemTemplates[k].fixed,
                    depot |-> "depot" \in DOMAIN ItemTemplates[k],
                    shared |-> "shared" \in DOMAIN ItemTemplates[k]]>> \o rest :
                   rest \in ItemLists(n - 1, k, first_id + 1)} :
                  k \in lo..Len(ItemTemplates)}

\* The travel matrices: every pair of distinct locations ten minutes
\* apart ("near"); the same without an entry for a move into location 2
\* and with 15 minutes from location 2 to the locations after it ("gap");
\* location 2 some 16 hours from everywhere and the others 100 seconds
\* apart ("far").
TravelMatrix(kind, n) ==
    [pair \in {q \in (0..(n - 1)) \X (0..(n - 1)) :
                 kind = "gap" => (q[2] # 2 \/ q[1] = 2)} |->
        IF pair[1] = pair[2] THEN 0
        ELSE IF kind = "near" THEN 600
        ELSE IF kind = "gap" THEN (IF pair[1] = 2 /\ pair[2] > 2 THEN 900 ELSE 600)
        ELSE IF pair[1] = 2 \/ pair[2] = 2 THEN 60000
        ELSE 100]

OptimizationItem(item) ==
    [id |-> item.id, locationIndex |-> item.locationIndex,
     durationSeconds |-> item.durationSeconds, priority |-> item.priority,
     eligibleTechnicianIds |-> item.eligibleTechnicianIds]

\* The fixed constraints of the items that carry a fixed time.
RECURSIVE FixedConstraintsOf(_)
FixedConstraintsOf(items) ==
    IF items = <<>> THEN <<>>
    ELSE (IF Head(items).fixed = None THEN <<>>
          ELSE <<[itemId |-> Head(items).id, fixedTimeISO |-> Iso(Head(items).fixed, 0)]>>)
         \o FixedConstraintsOf(Tail(items))

\* The location of item i of a list: the start depot, the location of the
\* item before it, or the next location after the two depots that no
\* earlier item of the list has.
RECURSIVE LocationOf(_, _)
LocationOf(items, i) ==
    IF items[i].depot THEN 0
    ELSE IF items[i].shared /\ i > 1 THEN LocationOf(items, i - 1)
    ELSE 1 + Cardinality({j \in 1..i : ~items[j].depot /\ ~(items[j].shared /\ j > 1)})

OptimizationRequestPayload(technician_list, items, kind) ==
    [kind |-> "request",
     locations |-> [i \in 1..(LocationOf(items \o <<[depot |-> FALSE, shared |-> FALSE]>>, Len(items) + 1))
                      |-> i - 1],
     technicians |-> technician_list,
     items |-> [i \in 1..Len(items) |->
                  OptimizationItem([items[i] EXCEPT !.locationIndex = LocationOf(items, i)])],
     fixedConstraints |-> FixedConstraintsOf(items),
     travelTimeMatrix |->
        TravelMatrix(kind, LocationOf(items \o <<[depot |-> FALSE, shared |-> FALSE]>>, Len(items) + 1))]

Requests ==
    {OptimizationRequestPayload(t, items, kind) :
        t \in RequestTechnicians, items \in ItemLists(MaxItems, 1, 1),
        kind \in {"near", "far"}}
    \cup {OptimizationRequestPayload(t, items, "near") :
             t \in {ShortAndLongDay, SecondStartsAfterItsEnd},
             items \in ItemLists(MaxItems, 1, 1)}
    \cup {OptimizationRequestPayload(TwelveDays, items, "gap") :
             items \in ItemLists(MaxItems, 1, 1)}

\* A request arrives.
ReceiveRequest ==
    /\ payload = NoPayload
    /\ payload' \in Requests
    /\ UNCHANGED <<technicians, service, updVars, eta_query, asgVars, helper_call,
                   response>>

\* The service answers it.
AnswerRequest ==
    /\ payload # NoPayload
    /\ response = NoResponse
    /\ response' \in optimize_schedule(payload)
    /\ UNCHANGED <<technicians, service, updVars, eta_query, asgVars, helper_call,
                   payload>>

NextService ==
    \/ ReceiveRequest
    \/ AnswerRequest

SpecService == InitHelpers /\ [][NextService]_vars

\* ================================================================ claims
ScheduledIds(technician) == UNION {UnitIds(schedule[technician][d]) : d \in Days}

PlanningDay == pc = "plan" /\ lastDay.kind = "planned"

FailedDay == PlanningDay /\ lastDay.outcome \in {"over", "raise"}

FitsSomeDay(u) ==
    \E d \in Days :
        LET a == get_technician_availability(service, d)
        IN ~a.is_none /\ u.duration <= a.end_time - a.start_time

Oversize(u) == IsDynamic(u) /\ ~FitsSomeDay(u)

C6_FetchFailureKeepsSchedule ==
    lastFetch.outcome = "raised" => schedule[lastFetch.tech] = lastFetch.before

\* ------------------------------------------------ claims on calculate_eta
Asked == pc = "queried"

QueryDuration == SumSeq(JobDurations(eta_query.jobs))

\* The free windows of a day of the schedule the call was made on.
QueryWindows(d) ==
    LET a == get_technician_availability(service, d)
    IN calculate_daily_available_windows(eta_query.before[d], a.start_time, a.end_time,
                                         EtaStartLocation(eta_query.tech, d))

\* Where the candidate would start in window i of day d.
SlotStart(d, i) ==
    QueryWindows(d)[i][1]
      + calculate_travel_time(QueryWindows(d)[i][3], eta_query.jobs[1].location)

\* The (day, window) pairs of the horizon the candidate fits into.
QuerySlots ==
    UNION {{<<d, i>> : i \in {j \in 1..Len(QueryWindows(d)) :
                                 SlotStart(d, j) + QueryDuration <= QueryWindows(d)[j][2]}} :
             d \in {e \in 1..max_days_to_check : EtaDayUsable(eta_query.tech, e)}}

ScanBefore(s, r) == s[1] < r[1] \/ (s[1] = r[1] /\ s[2] <= r[2])

\* The answer of the scan over the days and, within a day, over the windows.
EarliestSlotAnswer ==
    IF QuerySlots = {} THEN eta_query.eta = None
    ELSE \E s \in QuerySlots :
            /\ eta_query.eta = SlotStart(s[1], s[2])
            /\ \A r \in QuerySlots :
                  ScanBefore(s, r) /\ SlotStart(s[1], s[2]) <= SlotStart(r[1], r[2])

\* C7: calculate_eta returns window_start + travel for the first window, in
\* the order of the days 1..14 and of the windows of a day, into which the
\* unit fits, and None exactly when it fits into no window of the horizon.
C7_EtaIsEarliestFeasibleSlot ==
    Asked /\ eta_query.jobs # <<>> => EarliestSlotAnswer

\* The time a scheduled unit occupies does not meet [eta, eta + duration].
ClearOf(u) ==
    \/ u.estimated_start_time = None
    \/ eta_query.eta + QueryDuration <= u.estimated_start_time
    \/ u.estimated_end_time <= eta_query.eta

\* C8: the slot calculate_eta returns overlaps no unit already committed to
\* that day of the technician's schedule, with or without a fixed time.
C8_EtaSlotAvoidsScheduledUnits ==
    Asked /\ eta_query.eta # None =>
       \A u \in Range(eta_query.before[DateOf(eta_query.eta)]) : ClearOf(u)

\* C9: calculate_eta changes nothing: after the call the technician's
\* schedule, day list by day list and unit by unit, is the one before the
\* call, whether the answer is a time or None.
C9_EtaLeavesScheduleUnchanged ==
    Asked => schedule[eta_query.tech] = eta_query.before

\* C9 witness: a call answered with a time on a schedule that holds a
\* dynamic unit on a day the walk went through.
C9_Witness ==
    /\ Asked
    /\ eta_query.eta # None
    /\ \E d \in 1..DateOf(eta_query.eta) :
          /\ EtaDayUsable(eta_query.tech, d)
          /\ \E u \in Range(eta_query.before[d]) : IsDynamic(u)

\* -------------------------------------------------- claims on assign_jobs
AssignPhase == pc \in {"orders", "jobs", "assigned"}

\* Two writes that come from different decisions for one technician.
Rival(a, b) == a.tech = b.tech /\ a.unit # b.unit

SlotsApart(a, b) == a.eta + a.duration <= b.eta \/ b.eta + b.duration <= a.eta

\* C5: the decisions of one pass see each other: two orders or jobs given
\* to the same technician in the pass never hold the same ETA slot.
C5_DecisionsOfAPassDoNotShareASlot ==
    \A i, j \in 1..Len(assignments) :
        Rival(assignments[i], assignments[j]) =>
           SlotsApart(assignments[i], assignments[j])

\* The orders the loop over the orders has dealt with.
DecidedOrders ==
    Range(OrderKeys(dynamic_jobs_to_consider(all_eligible_jobs), {})) \ Range(order_queue)

\* The technicians of the list whose van holds every model the jobs need.
FullyEquipped(jobs) ==
    {t \in Range(technicians) :
        \A i \in 1..Len(jobs) :
            \A m \in Range(jobs[i].equipment_requirements) :
                m \in assigned_van(t).equipment}

\* Those of them that have an ETA for the jobs taken as one unit.
Contenders(jobs) == {t \in FullyEquipped(jobs) : calculate_eta(t, jobs) # None}

\* The technicians the writes for a job name.
WrittenTo(job) ==
    {assignments[i].tech : i \in {k \in 1..Len(assignments) : assignments[k].job = job.id}}

WritesFor(job) == Cardinality({k \in 1..Len(assignments) : assignments[k].job = job.id})

\* C10: an order of more than one job for which some fully equipped
\* technician has an ETA goes, every job of it, to one technician: a fully
\* equipped one whose ETA for the whole order no other undercuts.
C10_WholeOrderGoesToEarliestTechnician ==
    AssignPhase =>
       \A o \in DecidedOrders :
          LET order_jobs == jobs_by_order_id(all_eligible_jobs, o)
          IN Len(order_jobs) > 1 /\ Contenders(order_jobs) # {} =>
                \E t \in Contenders(order_jobs) :
                   /\ \A u \in Contenders(order_jobs) :
                         calculate_eta(t, order_jobs) <= calculate_eta(u, order_jobs)
                   /\ \A k \in 1..Len(order_jobs) :
                         /\ WrittenTo(order_jobs[k]) = {t}
                         /\ WritesFor(order_jobs[k]) = 1

\* C10 witness: the pass is over and a two-technician contest for an order
\* went to the technician that is second in the list, on a strictly
\* earlier ETA.
C10_Witness ==
    /\ pc = "assigned"
    /\ Len(technicians) = 2
    /\ \E o \in DecidedOrders :
          LET order_jobs == jobs_by_order_id(all_eligible_jobs, o)
          IN /\ Len(order_jobs) > 1
             /\ Contenders(order_jobs) = Range(technicians)
             /\ calculate_eta(technicians[2], order_jobs)
                   < calculate_eta(technicians[1], order_jobs)
             /\ \A k \in 1..Len(order_jobs) :
                   WrittenTo(order_jobs[k]) = {technicians[2]}

\* The jobs of the batch that the decision behind a write was taken for.
DecisionJobs(w) ==
    SelectSeq(all_eligible_jobs,
              LAMBDA job : \E k \in 1..Len(assignments) :
                              /\ assignments[k].job = job.id
                              /\ assignments[k].unit = w.unit)

\* The technicians that tie with the ETA that decided a write.
TiedWith(w) ==
    {u \in Contenders(DecisionJobs(w)) : calculate_eta(u, DecisionJobs(w)) = w.eta}

\* C11: when several candidate technicians share the earliest ETA of an
\* order or a job, the one with the lowest id is chosen, in whatever order
\* the technicians were passed in.
C11_TieGoesToLowestTechnicianId ==
    AssignPhase =>
       \A i \in 1..Len(assignments) :
          \A u \in TiedWith(assignments[i]) : assignments[i].tech <= u

\* The jobs the pass considers, as a set.
ConsideredJobs == Range(dynamic_jobs_to_consider(all_eligible_jobs))

\* The technician a job taken alone should go to: one that holds the job's
\* equipment and whose ETA for the job alone no other such technician
\* undercuts.
EarliestFor(job) ==
    {t \in Contenders(<<job>>) :
        \A u \in Contenders(<<job>>) :
            calculate_eta(t, <<job>>) <= calculate_eta(u, <<job>>)}

\* C12: the jobs of a multi-job order that no technician covers as a whole
\* are assigned one by one, each to a technician that holds its equipment
\* and has the earliest ETA for that job alone.
C12_UncoveredOrderIsAssignedJobByJob ==
    pc = "assigned" =>
       \A o \in DecidedOrders :
          LET order_jobs == jobs_by_order_id(all_eligible_jobs, o)
          IN Len(order_jobs) > 1 /\ FullyEquipped(order_jobs) = {} =>
                \A k \in 1..Len(order_jobs) :
                   Contenders(<<order_jobs[k]>>) # {} =>
                      /\ WritesFor(order_jobs[k]) = 1
                      /\ WrittenTo(order_jobs[k]) \subseteq EarliestFor(order_jobs[k])

\* C13: a job that no technician is equipped for, or that no equipped
\* technician has an ETA for, gets no assignment write in the pass.
C13_JobWithoutCandidateStaysUnassigned ==
    AssignPhase =>
       \A job \in ConsideredJobs :
          Contenders(<<job>>) = {} => WritesFor(job) = 0

\* C13 witness: a pass has ended in which one order was assigned and the
\* fully equipped technicians had no slot for another one, whose jobs then
\* went through the per-job loop and stayed without a write.
C13_Witness ==
    /\ pc = "assigned"
    /\ assignments # <<>>
    /\ \E o \in DecidedOrders :
          LET order_jobs == jobs_by_order_id(all_eligible_jobs, o)
          IN /\ Len(order_jobs) > 1
             /\ FullyEquipped(order_jobs) # {}
             /\ Contenders(order_jobs) = {}
             /\ \E k \in 1..Len(order_jobs) :
                   /\ order_jobs[k] \in Range(jobs_requiring_individual_assignment)
                   /\ Contenders(<<order_jobs[k]>>) = {}
                   /\ WritesFor(order_jobs[k]) = 0

\* C14: no assignment write is ever issued for a job whose fixed_assignment
\* flag is set.
C14_FixedAssignmentJobsAreNeverWritten ==
    AssignPhase =>
       \A job \in Range(all_eligible_jobs) :
          job.fixed_assignment => WritesFor(job) = 0

\* C14 witness: a pass has ended in which the other jobs of the order of a
\* fixed-assignment job were assigned.
C14_Witness ==
    /\ pc = "assigned"
    /\ \E job \in Range(all_eligible_jobs) :
          /\ job.fixed_assignment
          /\ \E other \in ConsideredJobs :
                other.order_id = job.order_id /\ WritesFor(other) = 1

\* ------------------------------------------- claims on the helpers
WindowsCalled == helper_call.kind = "windows"

\* C15: the windows calculate_daily_available_windows returns are in
\* strictly ascending start order, do not overlap, are not empty and lie
\* within the day.
C15_WindowsOrderedDisjointWithinDay ==
    WindowsCalled =>
       LET w == helper_call.result
       IN /\ \A i \in 1..Len(w) :
                /\ w[i][1] < w[i][2]
                /\ helper_call.day_start <= w[i][1]
                /\ w[i][2] <= helper_call.day_end
          /\ \A i \in 1..(Len(w) - 1) :
                /\ w[i][1] < w[i + 1][1]
                /\ w[i][2] <= w[i + 1][1]

\* C15 witness: a call returned two windows around a fixed unit it accepted
\* and had been handed a second fixed unit that it turned down.
C15_Witness ==
    /\ WindowsCalled
    /\ Len(helper_call.result) = 2
    /\ \E i, j \in 1..Len(helper_call.units) :
          /\ i # j
          /\ HasFixedTime(helper_call.units[i])
          /\ HasFixedTime(helper_call.units[j])
          /\ helper_call.units[i].duration > 0
          /\ helper_call.units[j].duration > 0
          /\ helper_call.units[i].fixed_schedule_time
                < helper_call.units[j].fixed_schedule_time
          /\ helper_call.units[j].fixed_schedule_time
                < helper_call.units[i].fixed_schedule_time + helper_call.units[i].duration

\* The fixed units the call accepted.
AcceptedUnits ==
    AcceptedWalk(SortByFixedTime(SelectSeq(helper_call.units, HasFixedTime)),
                 helper_call.day_start, helper_call.day_end)

\* The minutes of the day that lie in a window, and in an accepted unit.
MinutesInWindows ==
    UNION {helper_call.result[i][1]..(helper_call.result[i][2] - 1) :
             i \in 1..Len(helper_call.result)}

MinutesInAccepted ==
    UNION {AcceptedUnits[i].fixed_schedule_time
             ..(AcceptedUnits[i].fixed_schedule_time + AcceptedUnits[i].duration - 1) :
             i \in 1..Len(AcceptedUnits)}

\* C16: for day_start < day_end the windows and the accepted fixed units
\* tile the day: every minute of it lies in a window or in an accepted
\* unit, and none lies in both.
C16_WindowsAndFixedUnitsTileTheDay ==
    WindowsCalled /\ helper_call.day_start < helper_call.day_end =>
       /\ MinutesInWindows \cup MinutesInAccepted
             = helper_call.day_start..(helper_call.day_end - 1)
       /\ MinutesInWindows \cap MinutesInAccepted = {}

\* C16 witness: a day with a window before, between and after two accepted
\* fixed units.
C16_Witness ==
    /\ WindowsCalled
    /\ helper_call.day_start < helper_call.day_end
    /\ Len(AcceptedUnits) = 2
    /\ Len(helper_call.result) = 3

FitCalled == helper_call.kind = "fit"

\* The placement the claim describes: a unit goes into the earliest window
\* whose remaining length is at least its duration, and that length shrinks
\* by the duration.  remaining[i] is what is left of window i.
RECURSIVE PlacedByRemainingLength(_, _)
PlacedByRemainingLength(units, remaining) ==
    IF units = <<>> THEN <<>>
    ELSE LET u == Head(units)
             fits == {i \in 1..Len(remaining) : u.duration <= remaining[i]}
             first == CHOOSE i \in fits : \A j \in fits : i <= j
         IN IF u.duration <= 0 \/ fits = {}
            THEN PlacedByRemainingLength(Tail(units), remaining)
            ELSE <<u>> \o PlacedByRemainingLength(
                             Tail(units),
                             [remaining EXCEPT ![first] = remaining[first] - u.duration])

\* C17: the greedy placement puts each unit, in the order given, into the
\* earliest window whose remaining length is at least the unit's duration,
\* so that two units that fit into one window together are both placed.
C17_PlacementUsesRemainingWindowLength ==
    FitCalled =>
       helper_call.result[1] =
          PlacedByRemainingLength(
             helper_call.units,
             [i \in 1..Len(helper_call.windows) |->
                 helper_call.windows[i][2] - helper_call.windows[i][1]])

\* ------------------------------------- claims on the optimize service
Answered == response # NoResponse

\* The stops of the response, over all routes.
AllStops ==
    UNION {Range(response.routes[r].stops) : r \in 1..Len(response.routes)}

\* C18: the status follows from the unassigned ids: success exactly when
\* there are none, partial exactly when there are some but fewer than the
\* items, error exactly when every item of a non-empty request is
\* unassigned; when the solver finds no solution there is no route and every
\* item is listed.
C18_StatusFollowsUnassignedSet ==
    Answered =>
       LET n == Len(response.unassignedItemIds)
       IN /\ response.status = "success" <=> n = 0
          /\ response.status = "partial" <=> 0 < n /\ n < Len(payload.items)
          /\ response.status = "error" <=> 0 < n /\ n = Len(payload.items)
          /\ Range(response.unassignedItemIds) \cap {st.itemId : st \in AllStops} = {}
          /\ (payload.items # <<>> /\ payload.technicians # <<>>
                /\ SolveWithParameters(payload) = {})
                => /\ response.routes = <<>>
                   /\ response.unassignedItemIds = ItemIds(payload)

\* C18 witness: a request with two items for which the solver found a plan
\* that leaves both out, answered with status error and the routes empty.
C18_Witness ==
    /\ Answered
    /\ Len(payload.items) = 2
    /\ payload.technicians # <<>>
    /\ SolveWithParameters(payload) # {}
    /\ response.status = "error"
    /\ response.unassignedItemIds = ItemIds(payload)

\* The fixed time the request sets for an item, as seconds; None without.
FixedSecondsOf(item_id) ==
    LET cs == {c \in 1..Len(payload.fixedConstraints) :
                 payload.fixedConstraints[c].itemId = item_id}
    IN IF cs = {} THEN None
       ELSE iso_to_seconds(payload.fixedConstraints[CHOOSE c \in cs : TRUE].fixedTimeISO)

\* Whether technician 1 can serve the items in the order given, each at
\* its fixed time, waiting where it is early, and be back in time.
RECURSIVE ReachableWaiting(_, _, _)
ReachableWaiting(order, from_node, free_at) ==
    IF order = <<>>
    THEN free_at + travel_time_callback(payload, from_node,
                                        payload.technicians[1].endLocationIndex)
            <= iso_to_seconds(payload.technicians[1].latestEndTimeISO)
    ELSE LET item == payload.items[Head(order)]
         IN /\ free_at + travel_time_callback(payload, from_node, item.locationIndex)
                  <= FixedSecondsOf(item.id)
            /\ ReachableWaiting(Tail(order), item.locationIndex,
                                FixedSecondsOf(item.id) + item.durationSeconds)

\* A request of fixed items only, for one technician that is eligible for
\* all of them and can reach each by its fixed time when it may wait.
FixedItemsReachable ==
    /\ Len(payload.technicians) = 1
    /\ payload.items # <<>>
    /\ \A i \in 1..Len(payload.items) :
          /\ FixedSecondsOf(payload.items[i].id) # None
          /\ payload.technicians[1].id \in payload.items[i].eligibleTechnicianIds
    /\ \E order \in Perms([i \in 1..Len(payload.items) |-> i]) :
          ReachableWaiting(order, payload.technicians[1].startLocationIndex,
                           iso_to_seconds(payload.technicians[1].earliestStartTimeISO))

\* C19: every fixed item of a request whose fixed times can be met with
\* the vehicle waiting between stops gets a stop that starts at the fixed
\* time exactly and is arrived at no later.
C19_FixedItemsStartAtTheirFixedTime ==
    Answered /\ FixedItemsReachable =>
       \A i \in 1..Len(payload.items) :
          \E st \in AllStops :
             /\ st.itemId = payload.items[i].id
             /\ iso_to_seconds(st.startTimeISO) = FixedSecondsOf(payload.items[i].id)
             /\ iso_to_seconds(st.arrivalTimeISO) <= iso_to_seconds(st.startTimeISO)

\* Whether technician 1 can serve the items in the order given within its
\* window, leaving at its earliest start.
RECURSIVE FitsWindow(_, _, _)
FitsWindow(order, from_node, free_at) ==
    IF order = <<>>
    THEN free_at + travel_time_callback(payload, from_node,
                                        payload.technicians[1].endLocationIndex)
            <= iso_to_seconds(payload.technicians[1].latestEndTimeISO)
    ELSE LET item == payload.items[Head(order)]
         IN FitsWindow(Tail(order), item.locationIndex,
                       free_at + travel_time_callback(payload, from_node, item.locationIndex)
                         + item.durationSeconds)

FitsFromStart(order) ==
    FitsWindow(order, payload.technicians[1].startLocationIndex,
               iso_to_seconds(payload.technicians[1].earliestStartTimeISO))

\* One technician and two items without fixed times that it is eligible
\* for: either fits alone, the two together do not, and item `first` has
\* the lower priority number.
PriorityContest(first, second) ==
    /\ Len(payload.technicians) = 1
    /\ Len(payload.items) = 2
    /\ payload.fixedConstraints = <<>>
    /\ \A i \in 1..2 :
          payload.technicians[1].id \in payload.items[i].eligibleTechnicianIds
    /\ FitsFromStart(<<1>>) /\ FitsFromStart(<<2>>)
    /\ ~FitsFromStart(<<1, 2>>) /\ ~FitsFromStart(<<2, 1>>)
    /\ payload.items[first].priority < payload.items[second].priority

\* C20: of two items that fit the window of the one technician alone but
\* not together, exactly the one with the lower priority number is
\* scheduled, the other is unassigned and the status is partial.
C20_LowerPriorityNumberWinsTheWindow ==
    Answered =>
       \A first, second \in {1, 2} :
          PriorityContest(first, second) =>
             /\ response.status = "partial"
             /\ response.unassignedItemIds = <<payload.items[second].id>>
             /\ {st.itemId : st \in AllStops} = {payload.items[first].id}

\* The plans the solver can have returned for the response at hand.
PlansBehindResponse ==
    IF payload.items = <<>> \/ payload.technicians = <<>> THEN {}
    ELSE {plan \in SolveWithParameters(payload) : ResponseFor(payload, plan) = response}

\* The items of the request that technician number v serves in a plan
\* without being eligible for them, although some technician is.
RoutedToIneligible(plan, v) ==
    {i \in 1..Len(payload.items) :
        /\ payload.items[i].locationIndex \in Range(plan[v])
        /\ eligible_vehicles(payload, payload.items[i]) # {}
        /\ v \notin eligible_vehicles(payload, payload.items[i])}

\* C21: the solver routes no vehicle to an item that has eligible
\* technicians of which the vehicle's technician is not one, so no route is
\* withdrawn after the solve and no item is unassigned because another
\* item's eligibility was broken.
C21_SolverRespectsEligibility ==
    Answered =>
       \A plan \in PlansBehindResponse :
          \A v \in 1..Len(plan) : RoutedToIneligible(plan, v) = {}

\* The items of the request for which none of its technicians is eligible.
ItemsWithoutEligibleTechnician ==
    {i \in 1..Len(payload.items) : eligible_vehicles(payload, payload.items[i]) = {}}

\* C22: an item for which no technician of the request is eligible is
\* listed in unassignedItemIds and is the item of no stop.
C22_ItemWithoutEligibleTechnicianIsUnassigned ==
    Answered =>
       \A i \in ItemsWithoutEligibleTechnician :
          /\ payload.items[i].id \in Range(response.unassignedItemIds)
          /\ \A st \in AllStops : st.itemId # payload.items[i].id

\* C22 witness: the solver put an item without eligible technician on the
\* route of a technician that has the time for it, and the response lists
\* the item as unassigned.
C22_Witness ==
    /\ Answered
    /\ \E i \in ItemsWithoutEligibleTechnician :
          /\ \E plan \in PlansBehindResponse :
                \E v \in 1..Len(plan) : payload.items[i].locationIndex \in Range(plan[v])
          /\ payload.items[i].id \in Range(response.unassignedItemIds)

\* The items whose location the travel matrix has no entry into, from the
\* start depot of the technicians or from any other location.
ItemsWithoutWayIn ==
    {i \in 1..Len(payload.items) :
        \A from_node \in Range(payload.locations) \ {payload.items[i].locationIndex} :
           <<from_node, payload.items[i].locationIndex>> \notin DOMAIN payload.travelTimeMatrix}

\* C23: an item whose location the travel matrix has no entry into is
\* listed in unassignedItemIds and is the item of no stop, whatever the
\* window of the technician and the drop penalty of the item.
C23_ItemWithoutMatrixEntryIsUnassigned ==
    Answered =>
       \A i \in ItemsWithoutWayIn :
          /\ payload.items[i].id \in Range(response.unassignedItemIds)
          /\ \A st \in AllStops : st.itemId # payload.items[i].id

\* The item of the request that a stop is for.
ItemOfStop(st) == payload.items[item_id_to_payload_index(payload, st.itemId)]

\* One technician, one item that it is eligible for, no fixed constraint.
SingleItemSingleTechnician ==
    /\ Len(payload.technicians) = 1
    /\ Len(payload.items) = 1
    /\ payload.fixedConstraints = <<>>

\* C24: every stop is arrived at no later than it starts and ends its
\* item's duration after it starts; the stop of a single item served by a
\* single technician without fixed constraint starts on arrival, at the
\* technician's earliest start plus the travel from the start depot.
C24_StopTimesAreConsistent ==
    Answered =>
       /\ \A st \in AllStops :
             /\ iso_to_seconds(st.arrivalTimeISO) <= iso_to_seconds(st.startTimeISO)
             /\ iso_to_seconds(st.endTimeISO)
                  = iso_to_seconds(st.startTimeISO) + ItemOfStop(st).durationSeconds
       /\ SingleItemSingleTechnician =>
             \A st \in AllStops :
                /\ iso_to_seconds(st.startTimeISO) = iso_to_seconds(st.arrivalTimeISO)
                /\ iso_to_seconds(st.startTimeISO)
                     = iso_to_seconds(payload.technicians[1].earliestStartTimeISO)
                       + travel_time_callback(payload,
                                              payload.technicians[1].startLocationIndex,
                                              ItemOfStop(st).locationIndex)

\* The position in payload.technicians of the technician of a route.
VehicleOfRoute(route) ==
    CHOOSE v \in 1..Len(payload.technicians) :
       payload.technicians[v].id = route.technicianId

\* The sum of the travel-matrix entries of the edges of a path; an edge
\* the matrix has no entry for adds nothing.
RECURSIVE MatrixEntriesAlong(_)
MatrixEntriesAlong(path) ==
    IF Len(path) <= 1 THEN 0
    ELSE (IF <<path[1], path[2]>> \in DOMAIN payload.travelTimeMatrix
          THEN payload.travelTimeMatrix[<<path[1], path[2]>>] ELSE 0)
         + MatrixEntriesAlong(Tail(path))

\* C25: totalTravelTimeSeconds of every returned route is the sum of the
\* travel-matrix entries of the edges of the solved path, from the start
\* depot over the stops into the end depot.
C25_TotalTravelSumsEveryEdge ==
    Answered =>
       \A plan \in PlansBehindResponse :
          \A r \in 1..Len(response.routes) :
             response.routes[r].totalTravelTimeSeconds
               = MatrixEntriesAlong(
                    PathOf(payload, VehicleOfRoute(response.routes[r]),
                           plan[VehicleOfRoute(response.routes[r])]))

\* C25 witness: a returned route of two stops whose total is the sum of its
\* three edges, the one out of the start depot and the one into the end
\* depot included.
C25_Witness ==
    /\ Answered
    /\ \E r \in 1..Len(response.routes) :
          /\ Len(response.routes[r].stops) = 2
          /\ \E plan \in PlansBehindResponse :
                LET v == VehicleOfRoute(response.routes[r])
                    path == PathOf(payload, v, plan[v])
                IN /\ Len(path) = 4
                   /\ \A k \in 1..3 : travel_time_callback(payload, path[k], path[k + 1]) > 0
                   /\ response.routes[r].totalTravelTimeSeconds
                        = travel_time_callback(payload, path[1], path[2])
                          + travel_time_callback(payload, path[2], path[3])
                          + travel_time_callback(payload, path[3], path[4])

\* The travel-matrix entry for the move between the locations of two
\* items, 0 where the matrix has none.
TravelBetweenStops(st, next_st) ==
    IF <<ItemOfStop(st).locationIndex, ItemOfStop(next_st).locationIndex>>
          \in DOMAIN payload.travelTimeMatrix
    THEN payload.travelTimeMatrix[<<ItemOfStop(st).locationIndex,
                                    ItemOfStop(next_st).locationIndex>>]
    ELSE 0

\* C26: the stops of a returned route follow one another: each starts no
\* earlier than the previous one ends plus the travel between the two, so
\* the service intervals are disjoint, and each lies within the window of
\* the technician of the route.
C26_StopsDisjointWithinWindow ==
    Answered =>
       \A r \in 1..Len(response.routes) :
          LET stops == response.routes[r].stops
              technician == payload.technicians[VehicleOfRoute(response.routes[r])]
          IN /\ \A k \in 1..Len(stops) :
                   /\ iso_to_seconds(technician.earliestStartTimeISO)
                        <= iso_to_seconds(stops[k].startTimeISO)
                   /\ iso_to_seconds(stops[k].startTimeISO)
                        <= iso_to_seconds(stops[k].endTimeISO)
                   /\ iso_to_seconds(stops[k].endTimeISO)
                        <= iso_to_seconds(technician.latestEndTimeISO)
             /\ \A k \in 1..(Len(stops) - 1) :
                   iso_to_seconds(stops[k].endTimeISO) + TravelBetweenStops(stops[k], stops[k + 1])
                      <= iso_to_seconds(stops[k + 1].startTimeISO)

\* C26 witness: a route of two stops with travel between them, fitted into
\* the window of a technician whose times carry a UTC offset.
C26_Witness ==
    /\ Answered
    /\ \E r \in 1..Len(response.routes) :
          LET stops == response.routes[r].stops
              technician == payload.technicians[VehicleOfRoute(response.routes[r])]
          IN /\ Len(stops) = 2
             /\ technician.earliestStartTimeISO.offset # 0
             /\ TravelBetweenStops(stops[1], stops[2]) > 0
             /\ iso_to_seconds(stops[2].startTimeISO)
                  = iso_to_seconds(stops[1].endTimeISO)
                    + TravelBetweenStops(stops[1], stops[2])

\* The technicians of the request whose earliest start is after their
\* latest end.
TechniciansStartingAfterTheirEnd ==
    {v \in 1..Len(payload.technicians) :
        iso_to_seconds(payload.technicians[v].earliestStartTimeISO)
          > iso_to_seconds(payload.technicians[v].latestEndTimeISO)}

\* C27: a request with items and with a technician whose earliest start is
\* after its latest end is refused: the answer is an error, it carries no
\* route and it lists every item.
C27_StartAfterEndIsRejected ==
    (Answered /\ payload.items # <<>> /\ TechniciansStartingAfterTheirEnd # {}) =>
       /\ response.status = "error"
       /\ response.routes = <<>>
       /\ response.unassignedItemIds = ItemIds(payload)

\* The items at the start or end depot location of a technician.
ItemsAtDepot ==
    {i \in 1..Len(payload.items) : payload.items[i].locationIndex \in DepotNodes(payload)}

\* C28: when the solver returns a solution, every item at a depot location
\* is served: it is the item of a stop and is not listed in
\* unassignedItemIds.
C28_DepotItemsAreServed ==
    (Answered /\ payload.items # <<>> /\ payload.technicians # <<>>
       /\ SolveWithParameters(payload) # {}) =>
       \A i \in ItemsAtDepot :
          /\ \E st \in AllStops : st.itemId = payload.items[i].id
          /\ payload.items[i].id \notin Range(response.unassignedItemIds)

\* The stops of the routes of a response, route after route.
RECURSIVE StopsInOrder(_)
StopsInOrder(routes) ==
    IF routes = <<>> THEN <<>> ELSE Head(routes).stops \o StopsInOrder(Tail(routes))

\* The request at hand with a fixed constraint added for every stop of the
\* response, at the start time of the stop.
Resubmission ==
    [payload EXCEPT !.fixedConstraints =
        @ \o [k \in 1..Len(StopsInOrder(response.routes)) |->
                [itemId |-> StopsInOrder(response.routes)[k].itemId,
                 fixedTimeISO |-> StopsInOrder(response.routes)[k].startTimeISO]]]

UnitsWithPropagatedTimes ==
    UNION {UNION {{u \in Range(schedule[t][d]) : u.estimated_start_time # None} : d \in Days} :
             t \in Technicians}

\* C30: the jobs of a unit are stacked: the first starts at the start of
\* the unit, each following one when the one before it ends, each ends its
\* own duration after it starts, and the last ends at the start of the unit
\* plus the duration of the unit.
C30_JobsOfAUnitAreStacked ==
    \A u \in UnitsWithPropagatedTimes :
       /\ u.jobs[1].estimated_sched = u.estimated_start_time
       /\ \A i \in 2..Len(u.jobs) :
             u.jobs[i].estimated_sched = u.jobs[i - 1].estimated_sched_end
       /\ \A i \in 1..Len(u.jobs) :
             u.jobs[i].estimated_sched_end
               = u.jobs[i].estimated_sched + u.jobs[i].job_duration
       /\ u.jobs[Len(u.jobs)].estimated_sched_end = u.estimated_start_time + u.duration

\* C30 witness: a unit of two jobs with propagated times, the second job
\* starting after the first.
C30_Witness ==
    \E u \in UnitsWithPropagatedTimes :
       /\ helper_call.kind = "etas"
       /\ Len(u.jobs) = 2
       /\ u.jobs[2].estimated_sched = u.estimated_start_time + u.jobs[1].job_duration
       /\ u.jobs[1].job_duration > 0

\* The call of update_etas_for_schedule under observation, and what it was
\* given and has left for the day it was given units on.
PropagationCall == helper_call.kind = "etas"

CallAvailability == get_technician_availability(service, helper_call.day)

CallStartLocation ==
    IF helper_call.day = 1 THEN current_location(helper_call.technician)
    ELSE home_location(helper_call.technician)

UnitsAfterCall == schedule[helper_call.technician][helper_call.day]

\* Where and when the technician is free before the k-th unit of the day, if
\* every unit before it is served where the walk puts it.
RECURSIVE WalkStart(_, _)
WalkStart(units, k) ==
    LET from_time == IF k = 1 THEN CallAvailability.start_time
                     ELSE WalkStart(units, k - 1) + units[k - 1].duration
        from_loc == IF k = 1 THEN CallStartLocation ELSE units[k - 1].location
        arrival == from_time + calculate_travel_time(from_loc, units[k].location)
    IN IF units[k].fixed_schedule_time # None
       THEN Max2(arrival, units[k].fixed_schedule_time)
       ELSE arrival

\* The units of the day up to the k-th all end within the working hours.
FitsUpTo(units, k) ==
    \A j \in 1..k : WalkStart(units, j) + units[j].duration <= CallAvailability.end_time

\* C31: without start times for a day that has working hours, the units of
\* the day are walked in schedule order from the start of the day and the
\* start location: each unit starts at the end of the unit before it plus
\* the travel, a unit with a fixed time not before that time, and the next
\* unit is computed from that start, the duration and the location.
C31_FallbackWalksTheDay ==
    (PropagationCall /\ helper_call.unit_start_times = <<>> /\ ~CallAvailability.is_none)
       => \A k \in 1..Len(helper_call.units) :
             FitsUpTo(helper_call.units, k) =>
                /\ UnitsAfterCall[k].estimated_start_time = WalkStart(helper_call.units, k)
                /\ UnitsAfterCall[k].estimated_end_time
                     = WalkStart(helper_call.units, k) + helper_call.units[k].duration
                /\ UnitsAfterCall[k].jobs[1].estimated_sched
                     = WalkStart(helper_call.units, k)

\* The first unit of the day of the call that the walk cannot end within
\* the working hours, or 0 when every unit fits.
FirstOverflow ==
    LET over == {k \in 1..Len(helper_call.units) : ~FitsUpTo(helper_call.units, k)}
    IN IF over = {} THEN 0 ELSE CHOOSE k \in over : \A j \in over : k <= j

\* The call took the fallback branch and walked the day.
FallbackWalked ==
    /\ PropagationCall
    /\ helper_call.unit_start_times = <<>>
    /\ ~CallAvailability.is_none
    /\ CallAvailability.tz_aware

NoEstimate(job) ==
    /\ job.estimated_sched = None
    /\ job.estimated_sched_end = None
    /\ job.customer_eta_start = None
    /\ job.customer_eta_end = None

OccurrencesIn(units, id) == Cardinality({i \in 1..Len(units) : units[i].id = id})

OccurrencesInSchedule(tech_schedule, id) ==
    SumSeq([d \in Days |-> OccurrencesIn(tech_schedule[d], id)])

DynamicIds(units) == {units[i].id : i \in {j \in 1..Len(units) : IsDynamic(units[j])}}

WindowsCall == helper_call.kind = "windows"

\* The fixed units of the call in the order the helper goes through them.
FixedUnitsOfCall == SortByFixedTime(SelectSeq(helper_call.units, HasFixedTime))

\* The running cursor when the helper reaches the k-th fixed unit: the end
\* of the last unit it accepted, day_start before the first.
RECURSIVE CursorBefore(_)
CursorBefore(k) ==
    IF k = 1 THEN helper_call.day_start
    ELSE LET u == FixedUnitsOfCall[k - 1]
             cursor == CursorBefore(k - 1)
         IN IF /\ u.duration > 0
               /\ u.location # None
               /\ u.fixed_schedule_time >= cursor
               /\ u.fixed_schedule_time + u.duration <= helper_call.day_end
            THEN u.fixed_schedule_time + u.duration
            ELSE cursor

\* The k-th fixed unit starts before the cursor or ends after the day.
ConflictsOrExceeds(k) ==
    LET u == FixedUnitsOfCall[k]
    IN /\ u.duration > 0
       /\ u.location # None
       /\ \/ u.fixed_schedule_time < CursorBefore(k)
          \/ u.fixed_schedule_time + u.duration > helper_call.day_end

\* The units of the call without the unit of the given id.
CallUnitsWithout(id) ==
    LET Other(u) == u.id # id IN SelectSeq(helper_call.units, Other)

\* C34: a fixed unit that starts before the running cursor or ends after
\* day_end is skipped: the cursor behind it is the cursor before it, no
\* window starts at its end, and the windows are those of the same call
\* without the unit.
C34_ConflictingFixedUnitIsSkipped ==
    WindowsCall =>
       \A k \in 1..Len(FixedUnitsOfCall) :
          ConflictsOrExceeds(k) =>
             /\ helper_call.result
                  = calculate_daily_available_windows(
                       CallUnitsWithout(FixedUnitsOfCall[k].id), helper_call.day_start,
                       helper_call.day_end, helper_call.start_location)
             /\ \A w \in 1..Len(helper_call.result) :
                   helper_call.result[w][1] \in
                      {helper_call.day_start} \cup
                      {FixedUnitsOfCall[j].fixed_schedule_time + FixedUnitsOfCall[j].duration :
                         j \in {i \in 1..Len(FixedUnitsOfCall) : ~ConflictsOrExceeds(i)}}

\* C34 witness: two fixed units, the later of which starts while the
\* earlier is being served and is skipped; the last window starts at the
\* end of the earlier unit.
C34_Witness ==
    /\ WindowsCall
    /\ Len(FixedUnitsOfCall) = 2
    /\ ~ConflictsOrExceeds(1)
    /\ ConflictsOrExceeds(2)
    /\ CursorBefore(2) > helper_call.day_start
    /\ FixedUnitsOfCall[2].fixed_schedule_time < CursorBefore(2)
    /\ FixedUnitsOfCall[2].fixed_schedule_time + FixedUnitsOfCall[2].duration
         <= helper_call.day_end
    /\ helper_call.result # <<>>
    /\ Last(helper_call.result)[1] = CursorBefore(2)

\* ------------------------------------- claims on the day loop, continued
\* The day the loop has just committed, its units and the start times
\* recorded for it.
DayCommitted == pc = "plan" /\ lastDay.kind = "planned"

CommittedUnits == schedule[tech][lastDay.day]

RecordedStart(u) == all_daily_start_times[lastDay.day][u.id]

HasRecordedStart(u) == u.id \in DOMAIN all_daily_start_times[lastDay.day]

CommittedStartLocation ==
    IF lastDay.day = 1 THEN current_location(tech) ELSE home_location(tech)

\* C36: the time dimension of the daily optimizer advances along an edge by
\* the travel time plus the service duration of the node being left, so the
\* start returned for a unit is the moment its service begins: a day
\* committed from the optimizer's route with a single unit without a fixed
\* time records day start + travel for it, and each unit of a longer route
\* starts when the unit before it has been served and the way is travelled.
C36_ReturnedStartIsStartOfService ==
    (DayCommitted /\ lastDay.outcome = "ok") =>
       LET hours == get_technician_availability(service, lastDay.day)
       IN /\ (Len(CommittedUnits) = 1 /\ IsDynamic(CommittedUnits[1])) =>
                RecordedStart(CommittedUnits[1])
                  = hours.start_time
                      + calculate_travel_time(CommittedStartLocation,
                                              CommittedUnits[1].location)
          /\ \A k \in 2..Len(CommittedUnits) :
                RecordedStart(CommittedUnits[k])
                  = RecordedStart(CommittedUnits[k - 1]) + CommittedUnits[k - 1].duration
                      + calculate_travel_time(CommittedUnits[k - 1].location,
                                              CommittedUnits[k].location)

\* ---------------------------- claims on the ETA propagation, continued
\* C37: the start location of a day is the live current location on day 1
\* and the home location on every later day, and a day with no working
\* hours or with working hours of zero duration is skipped without a
\* change to the schedule; stated for the fallback branch of
\* update_etas_for_schedule, the third of the places that walk the days.
C37_DayStartLocationAndSkippedDays ==
    (PropagationCall /\ helper_call.unit_start_times = <<>>) =>
       /\ UnitsAfterCall[1].estimated_start_time # None =>
             UnitsAfterCall[1].estimated_start_time
               >= CallAvailability.start_time
                    + calculate_travel_time(
                         IF helper_call.day = 1
                         THEN current_location(helper_call.technician)
                         ELSE home_location(helper_call.technician),
                         helper_call.units[1].location)
       /\ (CallAvailability.is_none \/ CallAvailability.total_duration <= 0) =>
             UnitsAfterCall = helper_call.units

StopPositions ==
    UNION {{<<r, k>> : k \in 1..Len(response.routes[r].stops)} :
             r \in 1..Len(response.routes)}

StopAt(pos) == response.routes[pos[1]].stops[pos[2]]

\* The items of the request that share their locationIndex with an item
\* before them.
ItemsBehindAnotherAtTheirLocation ==
    {i \in 1..Len(payload.items) :
        \E j \in 1..(i - 1) : payload.items[j].locationIndex = payload.items[i].locationIndex}

\* C39: the item ids of a response are partitioned: every item id of the
\* request is in exactly one stop of one route or once among the unassigned
\* ids; a location index has at most one stop, and an item that shares its
\* location index with an earlier item of the request is unassigned.
C39_ItemIdsArePartitioned ==
    Answered =>
       /\ \A i \in 1..Len(payload.items) :
             Cardinality({pos \in StopPositions : StopAt(pos).itemId = payload.items[i].id})
               + Cardinality({k \in 1..Len(response.unassignedItemIds) :
                                response.unassignedItemIds[k] = payload.items[i].id})
               = 1
       /\ \A pos \in StopPositions :
             StopAt(pos).itemId \in Range(ItemIds(payload))
       /\ \A pos, other \in StopPositions :
             ItemOfStop(StopAt(pos)).locationIndex = ItemOfStop(StopAt(other)).locationIndex
                => pos = other
       /\ \A i \in ItemsBehindAnotherAtTheirLocation :
             payload.items[i].id \in Range(response.unassignedItemIds)

\* C39 witness: two items share a location, the first of them has a stop
\* and the second is reported unassigned.
C39_Witness ==
    /\ Answered
    /\ Len(payload.items) = 2
    /\ payload.items[1].locationIndex = payload.items[2].locationIndex
    /\ \E pos \in StopPositions : StopAt(pos).itemId = payload.items[1].id
    /\ response.unassignedItemIds = <<payload.items[2].id>>

\* --------------------------------- claims on assign_jobs, continued
\* The positions of the writes issued for a job, and its places in the list of the per-job
\* phase.
WritePositions(id) == {k \in 1..Len(assignments) : assignments[k].job = id}

PlacesInPerJobPhase(id) ==
    {k \in 1..Len(jobs_requiring_individual_assignment) :
        jobs_requiring_individual_assignment[k].id = id}

\* What holds for the jobs of a pass while it runs.
OneDecisionPerJob ==
    pc \in {"orders", "jobs", "assigned"} =>
       \A i \in 1..Len(all_eligible_jobs) :
          LET job == all_eligible_jobs[i]
          IN /\ Cardinality(WritePositions(job.id)) <= 1
             /\ Cardinality(PlacesInPerJobPhase(job.id)) <= 1
             /\ (pc \in {"jobs", "assigned"} /\ ~job.fixed_assignment) =>
                   \/ /\ PlacesInPerJobPhase(job.id) = {}
                      /\ Cardinality(WritePositions(job.id)) = 1
                   \/ /\ Cardinality(PlacesInPerJobPhase(job.id)) = 1
                      /\ WritePositions(job.id) # {} =>
                            \A k \in PlacesInPerJobPhase(job.id) : k < individual_index

\* The rebuild starts from a pass only when both loops have ended.
RebuildStartsAfterLastDecision ==
    (pc \in {"orders", "jobs", "assigned"} /\ pc' = "fetch") =>
       /\ pc = "assigned"
       /\ order_queue = <<>>
       /\ individual_index > Len(jobs_requiring_individual_assignment)

\* C40: in one assign_jobs pass at most one assignment write is issued per
\* job: a job assigned with its whole order does not enter the per-job
\* phase, a job whose order was not assigned as a whole enters it exactly
\* once, and the rebuild of the schedules starts only after the last
\* assignment decision.
C40_OneWritePerJobThenRebuild ==
    []OneDecisionPerJob /\ [][RebuildStartsAfterLastDecision]_vars

\* C40 witness: a pass has ended in which an order of two jobs was assigned
\* as a whole, one write per job, and another job went through the per-job
\* phase.
C40_Witness ==
    /\ pc = "assigned"
    /\ \E i, j \in 1..Len(all_eligible_jobs) :
          /\ i < j
          /\ all_eligible_jobs[i].order_id = all_eligible_jobs[j].order_id
          /\ Cardinality(WritePositions(all_eligible_jobs[i].id)) = 1
          /\ Cardinality(WritePositions(all_eligible_jobs[j].id)) = 1
    /\ jobs_requiring_individual_assignment # <<>>
    /\ individual_index = Len(jobs_requiring_individual_assignment) + 1
    /\ Len(assignments) = 2

====
